---- MODULE Spec2Model ----
(***************************************************************************)
(* A model of kousen's message-command pipeline: the command tree          *)
(* (commands.py), the component registry (components.py), the hook         *)
(* registries and the three-tier cascade (hooks.py) and the message        *)
(* dispatcher (handler.py, Bot.on_message_create).                         *)
(*                                                                         *)
(* Reading of the source.  The package is mid-refactor and several names   *)
(* do not resolve inside src/; they are read as the definitions they       *)
(* evidently denote:                                                       *)
(*   HookManager, ComponentHooks      -> hooks.Hooks                       *)
(*   HookType                         -> hooks.HookTypes                   *)
(*   command.invoke(ctx, args, kw)    -> <class>.message_invoke            *)
(*   MessageCommand                   -> commands.Command / CommandGroup   *)
(* dispatch_hooks (hooks.py 188-192) is read as running _dispatch_hooks to *)
(* completion and returning its result.  The argument parser placeholder   *)
(* (handler.py 488, "TODO tbd") carries no state and is left out.          *)
(* Component.get_command has an empty body in src/; it is modelled from    *)
(* the specification as the lookup in _names_to_message_commands.          *)
(* Component._hooks_added_to_bot (handler.py 849) is set nowhere in src/    *)
(* and is read as empty.  _getter (_getters.py 36-37) names its parameter  *)
(* return_obj while the makers bind return_object; it is read as returning *)
(* the object the maker bound.                                             *)
(* kousen.utils._await_if_async (hooks.py 29, 293) is not in src/; it is   *)
(* modelled from the specification: the callable is called with the values *)
(* and awaited to completion when it is async.                             *)
(* setup_message_commands and setup_slash_commands are plain defs holding  *)
(* an await (handler.py 244, 366); they are read as the calls they denote. *)
(* setup.py admits Python 3.8 to 3.10, where bool(NotImplemented) is True. *)
(* The _set_parser method Component calls on its commands (components.py   *)
(* 98, 108) is defined by no class of commands.py; it is modelled from the *)
(* specification as the command keeping the parser it is handed.           *)
(* Coroutines run on one event loop and interleave only at their awaits;   *)
(* advancing a dict iterator after the dict changed without changing size  *)
(* is undefined by the language and modelled as either outcome.            *)
(*                                                                         *)
(* Strings are sequences of one-character strings, so that startswith,     *)
(* lstrip, split and join are computed and not assumed.                    *)
(***************************************************************************)
EXTENDS Integers, Sequences, FiniteSets, TLC

VARIABLES
    _parent,                    \* SubCommand/SubCommandGroup._parent
    _names_to_subcommands,      \* CommandGroup/SubCommandGroup._names_to_subcommands
    _component,                 \* BaseCommand._component
    _names_to_message_commands, \* Component._names_to_message_commands
    _global_parser,             \* Component._global_parser
    _parser,                    \* the parser a command was handed by _set_parser
    _bot,                       \* Component._bot
    _names_to_components,       \* Bot._names_to_components (insertion order)
    _all_hooks,                 \* Hooks._all_hooks, one registry per owner
    _prefix_getter,             \* Bot._prefix_getter and the list object it captured
    _mention_prefixes,          \* Bot._mention_prefixes
    _case_insensitive_prefixes_getter, \* Bot._case_insensitive_prefixes_getter
    _slash_commands_only,       \* Bot._slash_commands_only
    _message_commands_only,     \* Bot._message_commands_only
    _started,                   \* Bot._started
    _msg_setup_run,             \* Bot._msg_setup_run
    __mention_prefixes,         \* Bot.__mention_prefixes (the private list)
    _custom_attributes,         \* Bot._custom_attributes
    tasks,                      \* the on_message_create coroutines in flight
    last                        \* what the most recent operation did (its observable effects)

vars == <<_parent, _names_to_subcommands, _component, _names_to_message_commands,
          _global_parser, _parser,
          _bot, _names_to_components, _all_hooks, _prefix_getter, _mention_prefixes,
          _case_insensitive_prefixes_getter, _slash_commands_only,
          _message_commands_only, _started, _msg_setup_run, __mention_prefixes,
          _custom_attributes, tasks, last>>

treeVars == <<_parent, _names_to_subcommands, _component, _names_to_message_commands,
              _global_parser, _parser>>
setupVars == <<_mention_prefixes, _case_insensitive_prefixes_getter,
               _slash_commands_only, _message_commands_only, _started, _msg_setup_run,
               __mention_prefixes, _custom_attributes>>
botVars == <<_bot, _names_to_components, _prefix_getter, setupVars>>

None == "None"
NotImplemented == "NotImplemented"

-----------------------------------------------------------------------------
(* Bounds of the model. *)

\* Most callbacks held by all hook registries together.
MaxHooks == 3
\* Longest list the prefix getter's captured list may grow to before
\* further messages are no longer fed in.
MaxPrefixes == 3

-----------------------------------------------------------------------------
(* Python str operations on sequences of characters. *)

\* str.lower on one character (only the letters used in the inputs have an
\* upper-case form here).
LowerChar(c) ==
    CASE c = "P" -> "p"
      [] c = "I" -> "i"
      [] c = "N" -> "n"
      [] c = "G" -> "g"
      [] c = "K" -> "k"
      [] OTHER -> c

lower(s) == [i \in 1..Len(s) |-> LowerChar(s[i])]

startswith(s, p) == Len(p) <= Len(s) /\ SubSeq(s, 1, Len(p)) = p

RECURSIVE lstrip(_)
lstrip(s) == IF s /= <<>> /\ Head(s) = " " THEN lstrip(Tail(s)) ELSE s

\* s.split(" ", maxsplit=1)[0]: everything before the first space.
RECURSIVE split_first(_)
split_first(s) ==
    IF s = <<>> \/ Head(s) = " " THEN <<>> ELSE <<Head(s)>> \o split_first(Tail(s))

\* " ".join(names)
RECURSIVE join(_)
join(names) ==
    IF names = <<>> THEN <<>>
    ELSE IF Len(names) = 1 THEN names[1]
    ELSE names[1] \o <<" ">> \o join(Tail(names))

\* list.reverse()
reverse(s) == [i \in 1..Len(s) |-> s[Len(s) + 1 - i]]

-----------------------------------------------------------------------------
(* Python dict as the sequence of its items in insertion order. *)

dict_has(d, k) == \E i \in 1..Len(d) : d[i][1] = k

dict_get(d, k) ==
    IF dict_has(d, k) THEN d[CHOOSE i \in 1..Len(d) : d[i][1] = k][2] ELSE None

\* d[k] = v : replaces the value in place, or appends a new item.
dict_set(d, k, v) ==
    IF dict_has(d, k)
    THEN [i \in 1..Len(d) |-> IF d[i][1] = k THEN <<k, v>> ELSE d[i]]
    ELSE Append(d, <<k, v>>)

dict_values(d) == [i \in 1..Len(d) |-> d[i][2]]

\* d.pop(k) for a key the dict holds: the dict without that item.
RECURSIVE dict_pop(_, _)
dict_pop(d, k) ==
    IF d = <<>> THEN <<>>
    ELSE IF Head(d)[1] = k THEN Tail(d)
    ELSE <<Head(d)>> \o dict_pop(Tail(d), k)

Range(s) == {s[i] : i \in 1..Len(s)}

-----------------------------------------------------------------------------
(* The command objects of the model and their construction-time fields. *)

Components == {"comp1", "comp2", "comp1b"}

\* Component._name, fixed by the constructor.  comp1b is a second component
\* named "comp1".
Component_name(component) == IF component = "comp1b" THEN "comp1" ELSE component
TopNodes == {"ping", "ping2", "user", "echo"}
SubNodes == {"info", "info2", "admin", "ban", "echo2"}
Nodes == TopNodes \cup SubNodes

\* The Python class of each object.
Class ==
    [n \in Nodes |->
        CASE n \in {"ping", "ping2"} -> "Command"
          [] n \in {"user", "echo"} -> "CommandGroup"
          [] n = "admin" -> "SubCommandGroup"
          [] OTHER -> "SubCommand"]

Groups == {n \in Nodes : Class[n] \in {"CommandGroup", "SubCommandGroup"}}

\* BaseCommand._name, fixed by the constructor.  ping2 is a second command
\* named "ping"; info2 is a second sub-command named "info"; echo2 is a
\* sub-command named like the group "echo".
_name ==
    [n \in Nodes |->
        CASE n \in {"ping", "ping2"} -> <<"p", "i", "n", "g">>
          [] n = "user" -> <<"u", "s", "e", "r">>
          [] n \in {"echo", "echo2"} -> <<"e", "c", "h", "o">>
          [] n \in {"info", "info2"} -> <<"i", "n", "f", "o">>
          [] n = "admin" -> <<"a", "d", "m", "i", "n">>
          [] OTHER -> <<"b", "a", "n">>]

-----------------------------------------------------------------------------
(* The command tree: commands.py and components.py.  The operators work on *)
(* a record h of the four tree fields so that the same code builds the     *)
(* trees of both specifications.                                           *)

Heap ==
    [parent |-> _parent, subs |-> _names_to_subcommands,
     component |-> _component, commands |-> _names_to_message_commands,
     global_parser |-> _global_parser, parser |-> _parser]

\* The objects right after their constructors ran.
FreshHeap ==
    [parent |-> [n \in SubNodes |-> NotImplemented],
     subs |-> [g \in Groups |-> <<>>],
     component |-> [n \in Nodes |-> None],
     commands |-> [c \in Components |-> <<>>],
     global_parser |-> [c \in Components |-> None],
     parser |-> [n \in Nodes |-> NotImplemented]]

\* walk_subcommands(): the values of a group's child map.
walk_subcommands(h, g) == IF g \in Groups THEN Range(dict_values(h.subs[g])) ELSE {}

\* The objects a recursive _set_component call visits, starting at the set
\* frontier.
RECURSIVE Visited(_, _, _)
Visited(h, frontier, seen) ==
    LET new == frontier \ seen
    IN  IF new = {} THEN seen
        ELSE Visited(h, UNION {walk_subcommands(h, n) : n \in new}, seen \cup new)

\* BaseCommand / CommandGroup / SubCommandGroup._set_component: sets the
\* field and recurses into every child.  A group that is its own descendant
\* makes the recursion unbounded: every visited object has had its field
\* set by the time Python raises RecursionError.
_set_component(h, cmd, component) ==
    LET seen == Visited(h, {cmd}, {})
        cyclic == \E n \in seen : n \in Visited(h, walk_subcommands(h, n), {})
    IN  [heap |-> [h EXCEPT !.component =
                      [n \in Nodes |-> IF n \in seen THEN component ELSE @[n]]],
         raised |-> IF cyclic THEN "RecursionError" ELSE None]

\* CommandGroup.get_subcommand / SubCommandGroup.get_subcommand
get_subcommand(h, g, name_or_alias) == dict_get(h.subs[g], name_or_alias)

\* An add_subcommand that does not set the child's _parent.
add_subcommand_keeping_parent(h, g, command) ==
    IF dict_has(h.subs[g], _name[command])
    THEN [heap |-> h, raised |-> "ValueError"]
    ELSE LET h1 == [h EXCEPT !.subs[g] = dict_set(@, _name[command], command)]
         IN  IF h1.component[g] /= None
             THEN _set_component(h1, command, h1.component[g])
             ELSE [heap |-> h1, raised |-> None]

\* An add_subcommand without the name check: a colliding child replaces the
\* existing one.
add_subcommand_overwriting(h, g, command) ==
    LET h1 == [h EXCEPT !.subs[g] = dict_set(@, _name[command], command),
                        !.parent[command] = g]
    IN  IF h1.component[g] /= None
        THEN _set_component(h1, command, h1.component[g])
        ELSE [heap |-> h1, raised |-> None]

\* CommandGroup.add_subcommand / SubCommandGroup.add_subcommand
add_subcommand(h, g, command) ==
    IF dict_has(h.subs[g], _name[command])
    THEN [heap |-> h, raised |-> "ValueError"]
    ELSE LET h1 == [h EXCEPT !.subs[g] = dict_set(@, _name[command], command),
                             !.parent[command] = g]
         IN  IF h1.component[g] /= None
             THEN _set_component(h1, command, h1.component[g])
             ELSE [heap |-> h1, raised |-> None]

\* The parser argument of Component.__init__: comp2 was built with a
\* custom parser, the others with the default None.
_custom_parser == [c \in Components |-> IF c = "comp2" THEN "custom" ELSE None]

\* <command>._set_parser(parser), which no class of commands.py defines:
\* the specification has the component hand its parser down to the node,
\* which keeps it.
Command_set_parser(h, command, parser) == [h EXCEPT !.parser[command] = parser]

\* A Component._set_parser that hands the parser down whether or not the
\* component has a custom parser.
_set_parser_ignoring_custom(h, comp, parser) ==
    [h EXCEPT !.global_parser[comp] = parser,
              !.parser = [n \in Nodes |->
                             IF n \in Range(dict_values(h.commands[comp]))
                             THEN parser ELSE @[n]]]

\* Component._set_parser
_set_parser(h, comp, parser) ==
    LET h1 == [h EXCEPT !.global_parser[comp] = parser]
    IN  IF _custom_parser[comp] = None
        THEN [h1 EXCEPT !.parser =
                 [n \in Nodes |->
                     IF n \in Range(dict_values(h.commands[comp]))
                     THEN Command_set_parser(h1, n, parser).parser[n] ELSE @[n]]]
        ELSE h1

\* Component.add_message_command
add_message_command(h, comp, command) ==
    IF dict_has(h.commands[comp], _name[command])
    THEN [heap |-> h, raised |-> "ValueError"]
    ELSE LET r == _set_component(
                      [h EXCEPT !.commands[comp] = dict_set(@, _name[command], command)],
                      command, comp)
         IN  IF r.raised /= None THEN r
             ELSE [heap |-> Command_set_parser(
                                r.heap, command,
                                IF _custom_parser[comp] /= None THEN _custom_parser[comp]
                                ELSE r.heap.global_parser[comp]),
                   raised |-> None]

\* The loop of SubCommand.full_name / SubCommandGroup.full_name: collects
\* names while cmd is not a CommandGroup.  An object that was never attached
\* has _parent = NotImplemented, which has no _name (AttributeError); a
\* parent cycle never leaves the loop ("diverges").
RECURSIVE full_name_loop(_, _, _, _)
full_name_loop(h, cmd, names, steps) ==
    IF cmd = NotImplemented THEN [value |-> <<>>, raised |-> "AttributeError"]
    ELSE IF Class[cmd] = "CommandGroup"
         THEN [value |-> join(reverse(names)), raised |-> None]
    ELSE IF steps > Cardinality(Nodes) THEN [value |-> <<>>, raised |-> "diverges"]
    ELSE full_name_loop(h, h.parent[cmd], Append(names, _name[cmd]), steps + 1)

\* <class>.full_name
full_name(h, cmd) ==
    IF Class[cmd] \in {"SubCommand", "SubCommandGroup"}
    THEN full_name_loop(h, cmd, <<>>, 0)
    ELSE [value |-> _name[cmd], raised |-> None]


-----------------------------------------------------------------------------
(* Hook registries and the three-tier cascade: hooks.py. *)

HookTypes ==
    {"error", "check_error", "pre_invoke", "post_invoke", "command_success",
     "component_added", "component_removed"}

_component_only_hooks == {"component_added", "component_removed"}

\* The callables offered to the registries: cb_ok returns, cb_raise raises
\* when called; both declare one parameter, cb_two declares two.
Callbacks == {"cb_ok", "cb_raise", "cb_two"}
params(callback) == IF callback = "cb_two" THEN 2 ELSE 1
raises(callback) == callback = "cb_raise"

HookOwners == {"bot"} \cup Components \cup Nodes

\* Hooks._type
_type(owner) ==
    IF owner = "bot" THEN "bot"
    ELSE IF owner \in Components THEN "component" ELSE "command"

\* Hooks.__init__ for every owner.  A hook type whose list is empty stands
\* for a key that is absent from _all_hooks (a list is never emptied).
FreshHooks == [o \in HookOwners |-> [t \in HookTypes |-> <<>>]]

\* An add_hook_callback whose lists are one shared list: the callback shows
\* up under every hook type of the registry.
add_hook_callback_shared_list(registry, type_, hook_type, callback) ==
    LET in_comp == hook_type \in _component_only_hooks
        rejected == [registry |-> registry, added |-> FALSE, raised |-> None]
    IN  IF hook_type \notin HookTypes THEN rejected
        ELSE IF type_ = "command" /\ in_comp THEN rejected
        ELSE IF in_comp /\ params(callback) /= 2 THEN rejected
        ELSE IF params(callback) /= 1 THEN rejected
        ELSE [registry |-> [t \in HookTypes |-> Append(registry[t], callback)],
              added |-> TRUE, raised |-> None]

\* An add_hook_callback that raises for a component-only type on a command
\* registry instead of logging and returning.
add_hook_callback_raising_for_commands(registry, type_, hook_type, callback) ==
    LET in_comp == hook_type \in _component_only_hooks
        rejected == [registry |-> registry, added |-> FALSE, raised |-> None]
    IN  IF hook_type \notin HookTypes THEN rejected
        ELSE IF type_ = "command" /\ in_comp
             THEN [rejected EXCEPT !.raised = "ValueError"]
        ELSE IF in_comp /\ params(callback) /= 2 THEN rejected
        ELSE IF params(callback) /= 1 THEN rejected
        ELSE [registry |-> [registry EXCEPT ![hook_type] = Append(@, callback)],
              added |-> TRUE, raised |-> None]

\* An add_hook_callback without the parameter count check of the types
\* that pass one value.
add_hook_callback_any_arity(registry, type_, hook_type, callback) ==
    LET in_comp == hook_type \in _component_only_hooks
        rejected == [registry |-> registry, added |-> FALSE, raised |-> None]
    IN  IF hook_type \notin HookTypes THEN rejected
        ELSE IF type_ = "command" /\ in_comp THEN rejected
        ELSE IF in_comp /\ params(callback) /= 2 THEN rejected
        ELSE [registry |-> [registry EXCEPT ![hook_type] = Append(@, callback)],
              added |-> TRUE, raised |-> None]

\* Hooks.add_hook_callback on one registry: the registry after the call,
\* whether the callback was stored, and what the call raised (every
\* rejection logs and returns self).
add_hook_callback(registry, type_, hook_type, callback) ==
    LET in_comp == hook_type \in _component_only_hooks
        rejected == [registry |-> registry, added |-> FALSE, raised |-> None]
    IN  IF hook_type \notin HookTypes THEN rejected
        ELSE IF type_ = "command" /\ in_comp THEN rejected
        ELSE IF in_comp /\ params(callback) /= 2 THEN rejected
        ELSE IF params(callback) /= 1 THEN rejected
        ELSE [registry |-> [registry EXCEPT ![hook_type] = Append(@, callback)],
              added |-> TRUE, raised |-> None]

\* One call of a hook callable, as the dispatch loop sees it:
\* _await_if_async(callable_, *values) calls the callable with the values
\* and awaits the result when the callable is async.
HookCall(owner, hook_type, callback, payload) ==
    [owner |-> owner, hook_type |-> hook_type, callback |-> callback,
     payload |-> payload, raised |-> raises(callback)]

\* The index of the first callable of the list that raises, 0 if none does.
FirstRaising(hook_callables) ==
    IF \E i \in 1..Len(hook_callables) : raises(hook_callables[i])
    THEN CHOOSE i \in 1..Len(hook_callables) :
            /\ raises(hook_callables[i])
            /\ \A j \in 1..(i - 1) : ~raises(hook_callables[j])
    ELSE 0

\* A dispatch without the try/except around the call: the first exception
\* ends the loop and leaves dispatch.
dispatch_stop_at_raise(all_hooks, owner, hook_type, payload) ==
    LET hook_callables == all_hooks[owner][hook_type]
        n == IF FirstRaising(hook_callables) = 0 THEN Len(hook_callables)
             ELSE FirstRaising(hook_callables)
    IN  [handled |-> hook_callables /= <<>> /\ FirstRaising(hook_callables) = 0,
         calls |-> [i \in 1..n |-> HookCall(owner, hook_type, hook_callables[i], payload)],
         raised |-> IF FirstRaising(hook_callables) = 0 THEN None ELSE "Exception"]

\* A dispatch that reports handled only when some callable returned.
dispatch_handled_if_returned(all_hooks, owner, hook_type, payload) ==
    LET hook_callables == all_hooks[owner][hook_type]
    IN  [handled |-> \E i \in 1..Len(hook_callables) : ~raises(hook_callables[i]),
         calls |-> [i \in 1..Len(hook_callables) |->
                       HookCall(owner, hook_type, hook_callables[i], payload)],
         raised |-> None]

\* Hooks.dispatch: every callable of the type in registration order, an
\* exception of one is logged and the loop goes on; True iff the list is
\* non-empty.  No exception leaves the loop.
dispatch(all_hooks, owner, hook_type, payload) ==
    LET hook_callables == all_hooks[owner][hook_type]
    IN  [handled |-> hook_callables /= <<>>,
         calls |-> [i \in 1..Len(hook_callables) |->
                       HookCall(owner, hook_type, hook_callables[i], payload)],
         raised |-> None]

\* A cascade that does not stop at the first registry that dispatched.
_dispatch_hooks_every_tier(all_hooks, hook_type, bot_hooks, component_hooks, command_hooks, payload) ==
    LET cmd == IF command_hooks /= None
               THEN dispatch(all_hooks, command_hooks, hook_type, payload)
               ELSE [handled |-> FALSE, calls |-> <<>>, raised |-> None]
        comp == IF component_hooks /= None
                THEN dispatch(all_hooks, component_hooks, hook_type, payload)
                ELSE [handled |-> FALSE, calls |-> <<>>, raised |-> None]
        bot == dispatch(all_hooks, bot_hooks, hook_type, payload)
    IN  [handled |-> cmd.handled \/ comp.handled \/ bot.handled,
         calls |-> cmd.calls \o comp.calls \o bot.calls]

\* A cascade that never falls back to the bot registry.
_dispatch_hooks_no_bot(all_hooks, hook_type, bot_hooks, component_hooks, command_hooks, payload) ==
    LET cmd == IF command_hooks /= None
               THEN dispatch(all_hooks, command_hooks, hook_type, payload)
               ELSE [handled |-> FALSE, calls |-> <<>>, raised |-> None]
        comp == IF component_hooks /= None
                THEN dispatch(all_hooks, component_hooks, hook_type, payload)
                ELSE [handled |-> FALSE, calls |-> <<>>, raised |-> None]
    IN  IF cmd.handled THEN cmd ELSE comp

\* _dispatch_hooks (and dispatch_hooks, which returns its result): command,
\* then component, then bot; stops at the first registry that dispatched.
\* component_hooks / command_hooks are an owner or None.
_dispatch_hooks(all_hooks, hook_type, bot_hooks, component_hooks, command_hooks, payload) ==
    LET cmd == IF command_hooks /= None
               THEN dispatch(all_hooks, command_hooks, hook_type, payload)
               ELSE [handled |-> FALSE, calls |-> <<>>, raised |-> None]
        comp == IF component_hooks /= None
                THEN dispatch(all_hooks, component_hooks, hook_type, payload)
                ELSE [handled |-> FALSE, calls |-> <<>>, raised |-> None]
        bot == dispatch(all_hooks, bot_hooks, hook_type, payload)
    IN  IF cmd.handled THEN cmd
        ELSE IF comp.handled THEN comp
        ELSE bot

-----------------------------------------------------------------------------
(* Errors (errors.py) and command invocation (commands.py). *)

NoError == [kind |-> "None"]
CommandError(context, raw_error) ==
    [kind |-> "CommandError", context |-> context, raw_error |-> raw_error]
CommandNotFound(event, name) ==
    [kind |-> "CommandNotFound", event |-> event, name |-> name]
PythonError(kind) == [kind |-> kind]

\* MessageContext(bot=, event=, prefix=, invoking_name=, command=)
MessageContext(event, prefix, invoking_name, command) ==
    [event |-> event, prefix |-> prefix, invoking_name |-> invoking_name,
     command |-> command]

\* What the user callbacks may raise when they run (None: they return).
CallbackOutcomes == {None, "ValueError"}

\* A message_invoke that returns quietly whether or not a hook handled the
\* error.
message_invoke_swallowing(h, bot_of, all_hooks, command, context, ex) ==
    LET idle == [command |-> command, callback_ran |-> FALSE, callback_raised |-> None,
                 handled |-> FALSE, calls |-> <<>>, raised |-> NoError, steps |-> <<>>]
        comp == h.component[command]
    IN  IF Class[command] /= "Command" THEN idle
        ELSE IF comp = None THEN [idle EXCEPT !.raised = PythonError("AssertionError")]
        ELSE IF bot_of[comp] = None
             THEN [idle EXCEPT !.raised = PythonError("AssertionError")]
        ELSE IF ex = None
             THEN [idle EXCEPT !.callback_ran = TRUE, !.steps = <<"callback">>]
        ELSE LET exp == CommandError(context, ex)
                 d == _dispatch_hooks(all_hooks, "error", bot_of[comp], comp, command, exp)
             IN  [command |-> command, callback_ran |-> TRUE, callback_raised |-> ex,
                  handled |-> d.handled, calls |-> d.calls, raised |-> NoError,
                  steps |-> <<"callback", "error">>]

\* <class>.message_invoke.  Only Command has a body; the other classes'
\* methods are "..." and return at once.  ex is what the user callback
\* raises when it runs.  The result tells whether the callback ran, what it
\* raised, the hook calls made, the exception that leaves the method, and
\* the steps taken in order: "callback" for the call of the user callback
\* and the hook type for every dispatch_hooks call (the check block of
\* lines 189-202 has an empty try body and dispatches nothing).
message_invoke(h, bot_of, all_hooks, command, context, ex) ==
    LET idle == [command |-> command, callback_ran |-> FALSE, callback_raised |-> None,
                 handled |-> FALSE, calls |-> <<>>, raised |-> NoError, steps |-> <<>>]
        comp == h.component[command]
    IN  IF Class[command] /= "Command" THEN idle
        ELSE IF comp = None THEN [idle EXCEPT !.raised = PythonError("AssertionError")]
        ELSE IF bot_of[comp] = None
             THEN [idle EXCEPT !.raised = PythonError("AssertionError")]
        ELSE IF ex = None
             THEN [idle EXCEPT !.callback_ran = TRUE, !.steps = <<"callback">>]
        ELSE LET exp == CommandError(context, ex)
                 d == _dispatch_hooks(all_hooks, "error", bot_of[comp], comp, command, exp)
             IN  [command |-> command, callback_ran |-> TRUE, callback_raised |-> ex,
                  handled |-> d.handled, calls |-> d.calls,
                  raised |-> IF d.handled THEN NoError ELSE exp,
                  steps |-> <<"callback", "error">>]


-----------------------------------------------------------------------------
(* The bot: handler.py and _getters.py.  The operators work on a record b  *)
(* of the bot's fields.                                                    *)

BotState ==
    [prefix_getter |-> _prefix_getter, mention_prefixes |-> _mention_prefixes,
     ci_prefixes_getter |-> _case_insensitive_prefixes_getter,
     slash_commands_only |-> _slash_commands_only,
     message_commands_only |-> _message_commands_only,
     started |-> _started, msg_setup_run |-> _msg_setup_run,
     private_mention_prefixes |-> __mention_prefixes,
     custom_attributes |-> _custom_attributes,
     components |-> _names_to_components, bot_of |-> _bot]

\* Bot.__init__ (and Component.__init__ for _bot).
FreshBot ==
    [prefix_getter |-> [kind |-> "NotImplemented"],
     mention_prefixes |-> <<>>,
     ci_prefixes_getter |-> [kind |-> "NotImplemented"],
     slash_commands_only |-> FALSE,
     message_commands_only |-> FALSE,
     started |-> FALSE, msg_setup_run |-> FALSE,
     private_mention_prefixes |-> <<>>,
     custom_attributes |-> <<>>,
     components |-> <<>>,
     bot_of |-> [c \in Components |-> None]]

\* hikari.UNDEFINED, and the arguments a prefix can be passed as: a record
\* of the kind of value ("UNDEFINED", "None", "str" or "list") and the
\* string or the list of strings.
UNDEFINED == "UNDEFINED"
NoPrefix(kind) == [kind |-> kind, value |-> <<>>]
StrPrefix(str) == [kind |-> "str", value |-> str]
ListPrefix(list) == [kind |-> "list", value |-> list]

\* _prefix_getter_maker for a string or a collection of strings: the getter
\* returns the one list object built here on every call.
_prefix_getter_maker(prefix) ==
    [kind |-> "literal",
     return_object |->
        IF prefix.kind = "str" THEN <<lstrip(prefix.value)>>
        ELSE [i \in 1..Len(prefix.value) |-> lstrip(prefix.value[i])]]

\* The coroutine functions passed as case_insensitive_prefixes and what
\* each returns when awaited: the bool True, the str "yes".
BoolCallbacks == {"returns_true", "returns_yes"}
returns(callback) ==
    IF callback = "returns_true" THEN [type |-> "bool", value |-> "True"]
    ELSE [type |-> "str", value |-> "yes"]

\* _bool_getter_maker for a bool, given as "True" or "False", or for a
\* coroutine function.
_bool_getter_maker(obj_) ==
    IF obj_ \in BoolCallbacks THEN [kind |-> "callback", callback |-> obj_]
    ELSE [kind |-> "literal", return_object |-> (obj_ = "True")]

\* _getter_with_callback for type_ = "bool": the awaited result is returned
\* when it is a str (line 63) and TypeError is raised otherwise.
_getter_with_callback(callback, type_) ==
    IF returns(callback).type = "str"
    THEN [value |-> returns(callback).value, raised |-> None]
    ELSE [value |-> None, raised |-> "TypeError"]

\* await getter(self, event) for a bool getter attribute: the value
\* returned, the exception raised, and bool() of the value as the if of
\* line 466 takes it.  NotImplemented is not callable.
call_bool_getter(getter) ==
    IF getter.kind = "NotImplemented"
    THEN [value |-> None, raised |-> "TypeError", truth |-> FALSE]
    ELSE IF getter.kind = "literal"
    THEN [value |-> IF getter.return_object THEN "True" ELSE "False", raised |-> None,
          truth |-> getter.return_object]
    ELSE LET r == _getter_with_callback(getter.callback, "bool")
         IN  [value |-> r.value, raised |-> r.raised,
              truth |-> r.raised = None /\ r.value \notin {"False", ""}]

\* bool(prefix) for the prefix argument: UNDEFINED, None, the empty string
\* and the empty list are false.
prefix_truth(prefix) == prefix.kind \in {"str", "list"} /\ prefix.value /= <<>>

\* bool(getter) for what a getter attribute can hold: NotImplemented is
\* true on the interpreters setup.py admits (3.8 to 3.10), and so is a
\* functools.partial.
getter_truth(getter) == getter.kind \in {"NotImplemented", "literal", "callback"}

\* Bot.setup_message_commands.  The flags use_mention_prefixes,
\* case_insensitive_prefixes and message_commands_only are given as one of
\* the strings "True", "False", "UNDEFINED".  The method is a plain def with
\* an await in it (line 244); it is read as the call it evidently denotes,
\* and delete_all_slash_commands only talks to the REST API.
\* case_insensitive_commands sets a getter no code reads and is left out.
\* Yields the bot afterwards and the exception raised, if any: the
\* assignments of lines 239-244 are made before the raise of line 246.
setup_message_commands(b, use_mention_prefixes, prefix, case_insensitive_prefixes, message_commands_only) ==
    LET b1 == IF message_commands_only = UNDEFINED THEN b
              ELSE [b EXCEPT !.message_commands_only = (message_commands_only = "True"),
                             !.slash_commands_only =
                                 IF message_commands_only = "True" THEN FALSE ELSE @]
    IN  IF /\ ~prefix_truth(prefix)
           /\ ~getter_truth(b1.prefix_getter)
           /\ use_mention_prefixes /= "True"
           /\ b1.mention_prefixes = <<>>
        THEN [bot |-> b1, raised |-> "ValueError"]
        ELSE [bot |->
                [b1 EXCEPT
                    !.mention_prefixes =
                        IF use_mention_prefixes \in {"True", UNDEFINED}
                        THEN IF b1.started THEN b1.private_mention_prefixes
                             ELSE << <<>> >>
                        ELSE <<>>,
                    !.prefix_getter =
                        IF prefix.kind = UNDEFINED THEN @
                        ELSE _prefix_getter_maker(IF prefix.kind = "None"
                                                  THEN ListPrefix(<<>>) ELSE prefix),
                    !.ci_prefixes_getter =
                        IF case_insensitive_prefixes /= UNDEFINED
                        THEN _bool_getter_maker(case_insensitive_prefixes)
                        ELSE IF ~getter_truth(@) THEN _bool_getter_maker("False") ELSE @,
                    !.msg_setup_run = TRUE],
              raised |-> None]

\* A setup_slash_commands that leaves _message_commands_only alone.
setup_slash_commands_keeping_message_only(b, slash_commands_only) ==
    IF slash_commands_only = UNDEFINED THEN b
    ELSE [b EXCEPT !.slash_commands_only = (slash_commands_only = "True")]

\* Bot.setup_slash_commands with the other arguments left at UNDEFINED
\* (lines 332-335; the guild list and the two delete flags are not part of
\* the model).
setup_slash_commands(b, slash_commands_only) ==
    IF slash_commands_only = UNDEFINED THEN b
    ELSE [b EXCEPT !.slash_commands_only = (slash_commands_only = "True"),
                   !.message_commands_only =
                       IF slash_commands_only = "True" THEN FALSE ELSE @]

\* Bot._starting_event: the set-up methods run with their defaults when
\* they were not called before.
_starting_event(b) ==
    LET b1 == IF ~b.msg_setup_run
              THEN setup_message_commands(b, UNDEFINED, NoPrefix(UNDEFINED), UNDEFINED,
                                          UNDEFINED).bot
              ELSE b
    IN  setup_slash_commands(b1, UNDEFINED)

\* The two mention prefixes of the bot's user, whose id is 1.
MentionIds == << <<"<", "@", "1", ">">>, <<"<", "@", "!", "1", ">">> >>

\* Bot._setup_on_started; user_known tells whether get_me or fetch_my_user
\* yielded the user.  The test of line 165 reads the private list, which
\* only line 167 assigns.
_setup_on_started(b, user_known) ==
    LET b1 == IF user_known
              THEN [b EXCEPT !.mention_prefixes =
                                 IF b.private_mention_prefixes /= <<>>
                                 THEN MentionIds ELSE @,
                             !.private_mention_prefixes = MentionIds]
              ELSE b
    IN  [b1 EXCEPT !.started = TRUE]

\* str.isidentifier for the names tried.
isidentifier(name) == name /= "my db"

\* Bot.__getattr__: called for a name the normal lookup does not find.
__getattr__(b, item) ==
    IF dict_has(b.custom_attributes, item)
    THEN [value |-> dict_get(b.custom_attributes, item), raised |-> None]
    ELSE [value |-> None, raised |-> "AttributeError"]

\* bot.<name>: the normal lookup finds the slots of the instance (of which
\* the model reads _started, shown as "True" or "False") before __getattr__
\* is tried.
getattr(b, name) ==
    IF name = "_started"
    THEN [value |-> IF b.started THEN "True" ELSE "False", raised |-> None]
    ELSE __getattr__(b, name)

\* bool(getattr(self, name, None))
getattr_truth(b, name) ==
    /\ getattr(b, name).raised = None
    /\ getattr(b, name).value \notin {"False", None}

\* Bot.add_custom_attribute
add_custom_attribute(b, name, attribute_value) ==
    IF ~isidentifier(name) THEN [bot |-> b, raised |-> "ValueError"]
    ELSE IF dict_has(b.custom_attributes, name) \/ getattr_truth(b, name)
         THEN [bot |-> b, raised |-> "ValueError"]
    ELSE [bot |-> [b EXCEPT !.custom_attributes = dict_set(@, name, attribute_value)],
          raised |-> None]

\* Bot.edit_custom_attribute
edit_custom_attribute(b, name, new_attribute_value) ==
    IF ~dict_has(b.custom_attributes, name) THEN [bot |-> b, raised |-> "ValueError"]
    ELSE [bot |-> [b EXCEPT !.custom_attributes = dict_set(@, name, new_attribute_value)],
          raised |-> None]

\* Bot.delete_custom_attribute
delete_custom_attribute(b, name) ==
    IF ~dict_has(b.custom_attributes, name) THEN [bot |-> b, raised |-> "ValueError"]
    ELSE [bot |-> [b EXCEPT !.custom_attributes = dict_pop(@, name)], raised |-> None]

\* Bot.add_component.  The loop of line 836 iterates the keys of the
\* component's command map and unpacks each into (name, command): a key that
\* is not two characters long raises ValueError, after the component was put
\* into the map and before _set_bot.
\* dispatched lists the hook types the call ran dispatch_hooks for: the
\* method body holds no such call.
add_component(h, b, component) ==
    IF component \in Range(dict_values(b.components))
    THEN [bot |-> b, raised |-> None, dispatched |-> <<>>]
    ELSE LET b1 == [b EXCEPT !.components = dict_set(@, Component_name(component), component)]
             keys == {h.commands[component][i][1] : i \in 1..Len(h.commands[component])}
         IN  IF \E k \in keys : Len(k) /= 2
             THEN [bot |-> b1, raised |-> "ValueError", dispatched |-> <<>>]
             ELSE [bot |-> [b1 EXCEPT !.bot_of[component] = "bot"], raised |-> None,
                   dispatched |-> <<>>]

\* A remove_component without the membership test: pop raises KeyError for
\* a name the map does not hold.
remove_component_strict(b, component_name) ==
    IF ~dict_has(b.components, component_name)
    THEN [bot |-> b, raised |-> "KeyError", dispatched |-> <<>>]
    ELSE LET component == dict_get(b.components, component_name)
         IN  [bot |-> [b EXCEPT !.components = dict_pop(@, component_name),
                                !.bot_of[component] = None],
              raised |-> None, dispatched |-> <<>>]

\* Bot.remove_component: returns at once for a name the map does not hold;
\* otherwise pops the component and clears its back-reference.  The method
\* body holds no dispatch_hooks call.
remove_component(b, component_name) ==
    IF ~dict_has(b.components, component_name)
    THEN [bot |-> b, raised |-> None, dispatched |-> <<>>]
    ELSE LET component == dict_get(b.components, component_name)
         IN  [bot |-> [b EXCEPT !.components = dict_pop(@, component_name),
                                !.bot_of[component] = None],
              raised |-> None, dispatched |-> <<>>]

\* Component.get_command(name_or_alias): the lookup the specification
\* describes, in the component's flat name -> command map.
get_command(h, component, name_or_alias) ==
    dict_get(h.commands[component], name_or_alias)

\* list.sort(key=len, reverse=True): stable, longest first.
RECURSIVE insert_by_len(_, _)
insert_by_len(sorted, x) ==
    IF sorted = <<>> THEN <<x>>
    ELSE IF Len(Head(sorted)) >= Len(x)
         THEN <<Head(sorted)>> \o insert_by_len(Tail(sorted), x)
    ELSE <<x>> \o sorted

RECURSIVE sort_by_len_reverse(_)
sort_by_len_reverse(prefixes) ==
    IF prefixes = <<>> THEN <<>>
    ELSE insert_by_len(sort_by_len_reverse(SubSeq(prefixes, 1, Len(prefixes) - 1)),
                       prefixes[Len(prefixes)])

\* A prefix scan that stops at the first hit.
RECURSIVE match_prefix_first_hit(_, _, _, _)
match_prefix_first_hit(prefixes, content, case_insensitive, prefix) ==
    IF prefixes = <<>> THEN prefix
    ELSE LET prefix_ == Head(prefixes)
             hit == IF case_insensitive
                    THEN startswith(lower(content), lower(prefix_))
                    ELSE startswith(content, prefix_)
         IN  IF hit THEN prefix_
             ELSE match_prefix_first_hit(Tail(prefixes), content, case_insensitive, prefix)

\* The two prefix loops of on_message_create (lines 466-473): every
\* candidate is tried, a later hit overwrites an earlier one.
RECURSIVE match_prefix(_, _, _, _)
match_prefix(prefixes, content, case_insensitive, prefix) ==
    IF prefixes = <<>> THEN prefix
    ELSE LET prefix_ == Head(prefixes)
             hit == IF case_insensitive
                    THEN startswith(lower(content), lower(prefix_))
                    ELSE startswith(content, prefix_)
         IN  match_prefix(Tail(prefixes), content, case_insensitive,
                          IF hit THEN prefix_ ELSE prefix)

\* The while loop of lines 482-486 on a found command: a Command or
\* SubCommand is kept; a group whose child map holds the working name yields
\* that child and leaves the loop at once (break); a group without such a
\* child repeats the same lookup for ever (hang).
descend(h, command, name) ==
    IF command \notin Groups THEN [command |-> command, name |-> name, hang |-> FALSE]
    ELSE LET new_name == split_first(name)
             cmd == get_subcommand(h, command, new_name)
         IN  IF cmd /= None
             THEN [command |-> cmd, name |-> new_name, hang |-> FALSE]
             ELSE [command |-> command, name |-> name, hang |-> TRUE]

\* The for loop of lines 479-497 from the i-th component on.  acc collects
\* the commands the components yielded, the invocations and the hook calls;
\* acc.outcome is "loop" while the loop runs and becomes "exhausted" (the
\* for loop ran to its end, so its else clause runs), "raised" or "hang".
RECURSIVE components_loop(_, _, _, _, _, _, _, _)
components_loop(h, b, all_hooks, event, prefix, name, ex, acc) ==
    LET i == acc.next
        components == dict_values(b.components)
    IN  IF i > Len(components) THEN [acc EXCEPT !.outcome = "exhausted"]
        ELSE LET command == get_command(h, components[i], name)
             IN  IF command = None
                 THEN components_loop(h, b, all_hooks, event, prefix, name, ex,
                                      [acc EXCEPT !.next = i + 1])
                 ELSE LET d == descend(h, command, name)
                          context == MessageContext(event, prefix, d.name, d.command)
                          r == message_invoke(h, b.bot_of, all_hooks, d.command, context, ex)
                          acc1 == [acc EXCEPT !.next = i + 1,
                                              !.matched = Append(@, command)]
                      IN  IF d.hang THEN [acc1 EXCEPT !.outcome = "hang"]
                          ELSE LET acc2 == [acc1 EXCEPT !.invocations = Append(@, r),
                                                        !.calls = @ \o r.calls]
                               IN  IF r.raised /= NoError
                                   THEN [acc2 EXCEPT !.outcome = "raised",
                                                     !.raised = r.raised]
                                   ELSE components_loop(h, b, all_hooks, event, prefix,
                                                        name, ex, acc2)

\* A gate that lets events without content through.
content_is_none_never(event) == FALSE

\* event.content is None (line 455)
content_is_none(event) == ~event.has_content

\* A gate that lets an empty remainder through.
nothing_remains_never(content) == FALSE

\* not (content := content[len(prefix):].lstrip()) (line 475), for the
\* stripped remainder
nothing_remains(content) == content = <<>>

\* The record an on_message_create call leaves in last: how it ended
\* (outcome, raised), the sorted candidate list (resolved, prefixes), the
\* prefix the scan recorded (scanned, prefix), the parsed name (parsed,
\* name), the command each matching component yielded (matched), the
\* message_invoke calls made (invocations), every hook call in order
\* (calls), whether the CommandNotFound dispatch of line 500 ran, and what
\* the call of the case-insensitive-prefixes getter yielded.
Observation(event) ==
    [op |-> "on_message_create", event |-> event, outcome |-> "returned",
     raised |-> NoError, resolved |-> FALSE, prefixes |-> <<>>,
     scanned |-> FALSE, prefix |-> <<>>,
     parsed |-> FALSE, name |-> <<>>, matched |-> <<>>, invocations |-> <<>>,
     calls |-> <<>>, not_found |-> FALSE,
     case_insensitive |-> [called |-> FALSE, value |-> None, raised |-> None,
                           truth |-> FALSE]]

\* Bot.on_message_create for one event; ex is what the user callbacks raise
\* when they run.  Yields the getter afterwards (the list it captured is
\* extended and sorted in place) and the observation.
on_message_create(h, b, all_hooks, event, ex) ==
    LET obs == Observation(event)
        quiet == [getter |-> b.prefix_getter, obs |-> obs]
    IN  IF b.slash_commands_only THEN quiet
        ELSE IF content_is_none(event) THEN quiet
        ELSE IF b.prefix_getter.kind = "NotImplemented"
             THEN [quiet EXCEPT !.obs.outcome = "raised",
                                !.obs.raised = PythonError("TypeError")]
        ELSE
        LET extended == b.prefix_getter.return_object \o b.mention_prefixes
            prefixes == sort_by_len_reverse(extended)
            content == lstrip(event.content)
        IN  IF extended = <<>> THEN quiet
            ELSE
            LET getter == [b.prefix_getter EXCEPT !.return_object = prefixes]
                ci == call_bool_getter(b.ci_prefixes_getter)
                obs1 == [obs EXCEPT !.resolved = TRUE, !.prefixes = prefixes,
                                    !.case_insensitive =
                                        [called |-> TRUE, value |-> ci.value,
                                         raised |-> ci.raised, truth |-> ci.truth]]
            IN  IF ci.raised /= None
                THEN [getter |-> getter,
                      obs |-> [obs1 EXCEPT !.outcome = "raised",
                                           !.raised = PythonError(ci.raised)]]
                ELSE
                LET prefix == match_prefix(prefixes, content, ci.truth, <<>>)
                    rest == lstrip(SubSeq(content, Len(prefix) + 1, Len(content)))
                    obs2 == [obs1 EXCEPT !.scanned = TRUE, !.prefix = prefix]
                IN  IF nothing_remains(rest) THEN [getter |-> getter, obs |-> obs2]
                    ELSE
                    LET name == split_first(rest)
                        loop == components_loop(h, b, all_hooks, event, prefix, name, ex,
                                    [next |-> 1, outcome |-> "loop", raised |-> NoError,
                                     matched |-> <<>>, invocations |-> <<>>,
                                     calls |-> <<>>])
                        obs3 == [obs2 EXCEPT !.parsed = TRUE, !.name = name,
                                             !.matched = loop.matched,
                                             !.invocations = loop.invocations,
                                             !.calls = loop.calls]
                        nf == _dispatch_hooks(all_hooks, "error", "bot", None, None,
                                              CommandNotFound(event, name))
                    IN  IF loop.outcome = "exhausted"
                        THEN [getter |-> getter,
                              obs |-> [obs3 EXCEPT !.not_found = TRUE,
                                                   !.calls = @ \o nf.calls]]
                        ELSE [getter |-> getter,
                              obs |-> [obs3 EXCEPT !.outcome = loop.outcome,
                                                   !.raised = loop.raised]]


-----------------------------------------------------------------------------
(* Concurrent dispatch.  Every MessageCreateEvent starts its own           *)
(* on_message_create coroutine on the one event loop.  A coroutine runs    *)
(* without interruption from one await to the next and may be suspended at *)
(* the awaits of lines 457 (prefix getter), 467 (case-insensitivity        *)
(* getter) and 494 (message_invoke, which awaits the user callback); the   *)
(* other coroutines and the bot's synchronous methods run in between.  A   *)
(* task record holds the locals of one coroutine.                          *)

TaskIds == {"t1", "t2"}

\* The locals of a coroutine that has not started: pc is the await it is
\* suspended at, seen is the component dict as the for loop of line 478
\* found it (the dict view's iterator remembers the size), next is the
\* position of that iterator, comp and bot are the locals message_invoke
\* captured at lines 186-187 before it awaited the callback.
IdleTask ==
    [pc |-> "idle", event |-> [has_content |-> FALSE, content |-> <<>>, is_human |-> TRUE],
     scanned |-> FALSE, prefix |-> <<>>, name |-> <<>>, seen |-> <<>>, next |-> 1,
     command |-> None, comp |-> None, bot |-> None, invoked |-> <<>>,
     callback_raised |-> None, routed_bot |-> None, routed_comp |-> None,
     mutated |-> FALSE, not_found |-> FALSE, outcome |-> "none", raised |-> NoError]

\* A coroutine that has ended: returned, raised, or never left the while
\* loop of lines 482-488 ("hang").
ended(task, outcome, raised) ==
    [task EXCEPT !.pc = "done", !.outcome = outcome, !.raised = raised]

\* Lines 452-457: the gates, then the await of the prefix getter.
task_begin(b, event) ==
    LET task == [IdleTask EXCEPT !.event = event]
    IN  IF b.slash_commands_only THEN ended(task, "returned", NoError)
        ELSE IF content_is_none(event) THEN ended(task, "returned", NoError)
        ELSE IF b.prefix_getter.kind = "NotImplemented"
             THEN ended(task, "raised", PythonError("TypeError"))
        ELSE [task EXCEPT !.pc = "prefix"]

\* A resolution that leaves the shared list in the order it found it.
resolve_prefixes_unsorted(prefixes, mention_prefixes) == prefixes \o mention_prefixes

\* Lines 459-463 on the list object the getter returned, which every
\* coroutine shares: prefixes.extend(...), then prefixes.sort(...).
resolve_prefixes(prefixes, mention_prefixes) ==
    sort_by_len_reverse(prefixes \o mention_prefixes)

\* The for loop of lines 478-499 from the iterator's position on, up to the
\* next await of a user callback; invoked lists the commands whose
\* message_invoke was called.  The for-else of line 500 runs whenever
\* the loop is exhausted, for no break leaves the loop.
RECURSIVE task_loop(_, _, _)
task_loop(h, b, task) ==
    LET components == dict_values(b.components)
        i == task.next
    IN  IF i > Len(components)
        THEN [ended(task, "returned", NoError) EXCEPT !.not_found = TRUE]
        ELSE LET command == get_command(h, components[i], task.name)
             IN  IF command = None THEN task_loop(h, b, [task EXCEPT !.next = i + 1])
                 ELSE LET d == descend(h, command, task.name)
                          comp == h.component[d.command]
                          task1 == [task EXCEPT !.next = i + 1,
                                                !.invoked = Append(@, d.command)]
                      IN  IF d.hang THEN ended(task, "hang", NoError)
                          ELSE IF Class[d.command] /= "Command"
                               THEN task_loop(h, b, task1)
                          ELSE IF comp = None
                               THEN ended(task1, "raised", PythonError("AssertionError"))
                          ELSE IF b.bot_of[comp] = None
                               THEN ended(task1, "raised", PythonError("AssertionError"))
                          ELSE [task1 EXCEPT !.pc = "callback", !.command = d.command,
                                             !.comp = comp, !.bot = b.bot_of[comp]]

\* Lines 467-478 once the case-insensitivity getter has answered: the scan
\* of the shared list as it is now, the strip, the name, and the start of
\* the loop over the components.
task_scan(h, b, task) ==
    LET ci == call_bool_getter(b.ci_prefixes_getter)
        content == lstrip(task.event.content)
        prefix == match_prefix(b.prefix_getter.return_object, content, ci.truth, <<>>)
        rest == lstrip(SubSeq(content, Len(prefix) + 1, Len(content)))
        task1 == [task EXCEPT !.scanned = TRUE, !.prefix = prefix]
    IN  IF ci.raised /= None THEN ended(task, "raised", PythonError(ci.raised))
        ELSE IF nothing_remains(rest) THEN ended(task1, "returned", NoError)
        ELSE task_loop(h, b, [task1 EXCEPT !.name = split_first(rest),
                                           !.seen = b.components, !.next = 1])

\* The outcomes of advancing a dict view's iterator: StopIteration or the
\* next value ("next"), or RuntimeError("dictionary changed size during
\* iteration") when the size differs from the one the iterator remembers.
\* After a change that left the size alone the language promises neither.
iterator_outcomes(seen, components) ==
    IF Len(components) /= Len(seen) THEN {"RuntimeError"}
    ELSE IF components /= seen THEN {"RuntimeError", "next"}
    ELSE {"next"}

\* commands.py lines 203-216 and handler.py lines 494-499 when the user
\* callback ends (ex is what it raised): the error is routed through the
\* comp and bot captured before the await, then the for loop asks its
\* iterator for the next component.
task_return(h, b, all_hooks, task, ex, step) ==
    LET context == MessageContext(task.event, task.prefix, task.name, task.command)
        r == message_invoke([h EXCEPT !.component[task.command] = task.comp],
                            [b.bot_of EXCEPT ![task.comp] = task.bot],
                            all_hooks, task.command, context, ex)
        task1 == [task EXCEPT !.callback_raised = ex,
                              !.routed_bot = IF ex = None THEN @ ELSE task.bot,
                              !.routed_comp = IF ex = None THEN @ ELSE task.comp,
                              !.mutated = @ \/ b.components /= task.seen]
    IN  IF r.raised /= NoError THEN ended(task1, "raised", r.raised)
        ELSE IF step = "RuntimeError"
             THEN ended(task1, "raised", PythonError("RuntimeError"))
        ELSE task_loop(h, b, task1)


-----------------------------------------------------------------------------
(* State after construction, and the actions. *)

\* The observation of on_message_create ended in the loop that never
\* yields: the event loop is blocked and nothing else runs any more.
Hung == last.op = "on_message_create" /\ last.outcome = "hang"

SetHeap(h) ==
    /\ _parent' = h.parent
    /\ _names_to_subcommands' = h.subs
    /\ _component' = h.component
    /\ _names_to_message_commands' = h.commands
    /\ _global_parser' = h.global_parser
    /\ _parser' = h.parser

InitFrom(h, b) ==
    /\ _parent = h.parent
    /\ _names_to_subcommands = h.subs
    /\ _component = h.component
    /\ _names_to_message_commands = h.commands
    /\ _global_parser = h.global_parser
    /\ _parser = h.parser
    /\ _prefix_getter = b.prefix_getter
    /\ _mention_prefixes = b.mention_prefixes
    /\ _case_insensitive_prefixes_getter = b.ci_prefixes_getter
    /\ _slash_commands_only = b.slash_commands_only
    /\ _message_commands_only = b.message_commands_only
    /\ _started = b.started
    /\ _msg_setup_run = b.msg_setup_run
    /\ __mention_prefixes = b.private_mention_prefixes
    /\ _custom_attributes = b.custom_attributes
    /\ _names_to_components = b.components
    /\ _bot = b.bot_of
    /\ _all_hooks = FreshHooks
    /\ tasks = [t \in TaskIds |-> IdleTask]
    /\ last = [op |-> "init"]

(* Specification SpecTree: building command trees from fresh objects. *)

\* The objects the tree-building calls are applied to.
TreeGroupInputs == {"user", "admin"}
TreeSubInputs == {"info", "admin", "ban"}
TreeTopInputs == {"user", "ping"}
TreeComponentInputs == {"comp1"}

InitTree == InitFrom(FreshHeap, FreshBot)

\* <group>.add_subcommand(command)
AddSubcommand(g, command) ==
    LET r == add_subcommand(Heap, g, command)
    IN  /\ SetHeap(r.heap)
        /\ last' = [op |-> "add_subcommand", group |-> g, command |-> command,
                    raised |-> r.raised]
        /\ UNCHANGED <<botVars, _all_hooks, tasks>>

\* component.add_message_command(command)
AddMessageCommand(component, command) ==
    LET r == add_message_command(Heap, component, command)
    IN  /\ SetHeap(r.heap)
        /\ last' = [op |-> "add_message_command", component |-> component,
                    command |-> command, raised |-> r.raised]
        /\ UNCHANGED <<botVars, _all_hooks, tasks>>

\* command.full_name
ReadFullName(command) ==
    LET r == full_name(Heap, command)
    IN  /\ last' = [op |-> "full_name", command |-> command, value |-> r.value,
                    raised |-> r.raised]
        /\ UNCHANGED <<treeVars, botVars, _all_hooks, tasks>>

NextTree ==
    \/ \E g \in TreeGroupInputs, c \in TreeSubInputs : AddSubcommand(g, c)
    \/ \E comp \in TreeComponentInputs, c \in TreeTopInputs : AddMessageCommand(comp, c)
    \/ \E c \in TreeTopInputs \cup TreeSubInputs : ReadFullName(c)

SpecTree == InitTree /\ [][NextTree]_vars

(* Specification SpecOwn: two top-level groups in two components sharing   *)
(* sub-commands, two of which carry the same name.                         *)

OwnGroupInputs == {"user", "echo"}
OwnSubInputs == {"info", "info2"}
\* (component, command) pairs of the add_message_command calls.
OwnAttachInputs ==
    {<<"comp1", "user">>, <<"comp2", "echo">>, <<"comp1", "ping">>, <<"comp1", "ping2">>}

NextOwn ==
    \/ \E g \in OwnGroupInputs, c \in OwnSubInputs : AddSubcommand(g, c)
    \/ \E a \in OwnAttachInputs : AddMessageCommand(a[1], a[2])

SpecOwn == InitTree /\ [][NextOwn]_vars


(* Specification SpecParser: two components, one with a custom parser,     *)
(* that gain commands and are handed parsers.                              *)

ParserComponentInputs == {"comp1", "comp2"}
\* (component, command) pairs of the add_message_command calls.
ParserAttachInputs ==
    {<<"comp1", "ping">>, <<"comp1", "user">>, <<"comp2", "echo">>, <<"comp2", "ping2">>}
ParserInputs == {"p1", "p2"}

\* component._set_parser(parser)
SetParser(component, parser) ==
    /\ SetHeap(_set_parser(Heap, component, parser))
    /\ last' = [op |-> "_set_parser", component |-> component, parser |-> parser,
                raised |-> None]
    /\ UNCHANGED <<botVars, _all_hooks, tasks>>

NextParser ==
    \/ \E a \in ParserAttachInputs : AddMessageCommand(a[1], a[2])
    \/ \E c \in ParserComponentInputs, pr \in ParserInputs : SetParser(c, pr)

SpecParser == InitTree /\ [][NextParser]_vars


(* Specification Spec: a bot that was set up, then hook registration and   *)
(* inbound messages.                                                       *)

Bang == <<"!">>
BangBang == <<"!", "!">>
KBang == <<"k", "!">>

\* The arguments passed to setup_message_commands.
SetupArgs ==
    {[use_mention_prefixes |-> "False", prefix |-> ListPrefix(<<Bang, BangBang>>),
      case_insensitive_prefixes |-> "False"],
     [use_mention_prefixes |-> "False", prefix |-> ListPrefix(<<KBang>>),
      case_insensitive_prefixes |-> "False"],
     [use_mention_prefixes |-> "False", prefix |-> ListPrefix(<<KBang>>),
      case_insensitive_prefixes |-> "True"],
     [use_mention_prefixes |-> UNDEFINED, prefix |-> ListPrefix(<<KBang>>),
      case_insensitive_prefixes |-> "False"]}

\* The set-up script: two empty components are added to the bot, then the
\* commands are added to the components and the sub-commands to the
\* groups: comp1 holds ping, user (info, admin (ban)) and echo (echo2),
\* comp2 holds ping2.
SetupBot(use_mention_prefixes, prefix, case_insensitive_prefixes) ==
    LET b0 == setup_message_commands(FreshBot, use_mention_prefixes, prefix,
                                     case_insensitive_prefixes, UNDEFINED).bot
        b1 == add_component(FreshHeap, b0, "comp1").bot
    IN  add_component(FreshHeap, b1, "comp2").bot

SetupHeap ==
    LET h1 == add_message_command(FreshHeap, "comp1", "ping").heap
        h2 == add_message_command(h1, "comp1", "user").heap
        h3 == add_subcommand(h2, "user", "info").heap
        h4 == add_subcommand(h3, "admin", "ban").heap
        h5 == add_subcommand(h4, "user", "admin").heap
        h6 == add_subcommand(h5, "echo", "echo2").heap
        h7 == add_message_command(h6, "comp1", "echo").heap
    IN  add_message_command(h7, "comp2", "ping2").heap

Init ==
    \E a \in SetupArgs :
        InitFrom(SetupHeap, SetupBot(a.use_mention_prefixes, a.prefix,
                                     a.case_insensitive_prefixes))

\* The inbound message events.
Text(prefix, words) ==
    [has_content |-> TRUE, content |-> prefix \o join(words), is_human |-> TRUE]
Events ==
    {[has_content |-> FALSE, content |-> <<>>, is_human |-> TRUE],
     Text(<<>>, <<_name["ping"]>>),
     Text(Bang, <<>>),
     Text(Bang, <<_name["ping"]>>),
     Text(BangBang, <<_name["ping"]>>),
     Text(KBang, <<_name["ping"]>>),
     Text(<<"K", "!">>, <<_name["ping"]>>),
     Text(Bang, <<_name["ban"]>>),
     Text(Bang, <<_name["user"]>>),
     Text(Bang, <<_name["echo"]>>),
     Text(Bang, <<_name["user"], _name["info"]>>)}

\* The registries hook callbacks are added to, and the hook types tried.
HookOwnerInputs == {"bot", "comp1", "ping"}
HookTypeInputs == {"error"}

\* The number of callbacks the registries of slots (owner, hook type) hold.
RECURSIVE CountHooks(_, _)
CountHooks(all_hooks, slots) ==
    IF slots = {} THEN 0
    ELSE LET slot == CHOOSE x \in slots : TRUE
         IN  Len(all_hooks[slot[1]][slot[2]]) + CountHooks(all_hooks, slots \ {slot})

TotalHooks ==
    CountHooks(_all_hooks,
               {slot \in HookOwners \X HookTypes : _all_hooks[slot[1]][slot[2]] /= <<>>})

\* <owner>.hooks.add_hook_callback(hook_type, callback)
AddHookCallback(owner, hook_type, callback) ==
    LET r == add_hook_callback(_all_hooks[owner], _type(owner), hook_type, callback)
    IN  /\ ~Hung
        /\ TotalHooks < MaxHooks
        /\ _all_hooks' = [_all_hooks EXCEPT ![owner] = r.registry]
        /\ last' = [op |-> "add_hook_callback", owner |-> owner, hook_type |-> hook_type,
                    callback |-> callback, added |-> r.added, raised |-> r.raised]
        /\ UNCHANGED <<treeVars, botVars, tasks>>

\* Bot.on_message_create(event)
OnMessageCreate(event, ex) ==
    LET r == on_message_create(Heap, BotState, _all_hooks, event, ex)
    IN  /\ ~Hung
        /\ _prefix_getter.kind = "literal" =>
               Len(_prefix_getter.return_object) + Len(_mention_prefixes) <= MaxPrefixes
        /\ _prefix_getter' = r.getter
        /\ last' = r.obs
        /\ UNCHANGED <<treeVars, _all_hooks, tasks, setupVars, _names_to_components, _bot>>

Next ==
    \/ \E o \in HookOwnerInputs, t \in HookTypeInputs, cb \in Callbacks :
           AddHookCallback(o, t, cb)
    \/ \E e \in Events, ex \in CallbackOutcomes : OnMessageCreate(e, ex)

Spec == Init /\ [][Next]_vars

(* Specification SpecHooks: hook registration on fresh registries and     *)
(* direct dispatch on one registry.                                        *)

HooksOwnerInputs == {"bot", "comp1", "ping"}
\* "bogus" is a value that is no member of HookTypes.
HooksAddTypeInputs == {"error", "pre_invoke", "component_added", "bogus"}
HooksDispatchTypeInputs == {"error", "component_added"}

\* The keyword arguments handed to a dispatch.
Payload == [kind |-> "KousenError"]

\* <owner>.hooks.dispatch(hook_type, error=payload)
Dispatch(owner, hook_type) ==
    LET r == dispatch(_all_hooks, owner, hook_type, Payload)
    IN  /\ last' = [op |-> "dispatch", owner |-> owner, hook_type |-> hook_type,
                    handled |-> r.handled, calls |-> r.calls, raised |-> r.raised]
        /\ UNCHANGED <<treeVars, botVars, _all_hooks, tasks>>

NextHooks ==
    \/ \E o \in HooksOwnerInputs, t \in HooksAddTypeInputs, cb \in Callbacks :
           AddHookCallback(o, t, cb)
    \/ \E o \in HooksOwnerInputs, t \in HooksDispatchTypeInputs : Dispatch(o, t)

SpecHooks == InitTree /\ [][NextHooks]_vars


(* Specification SpecBot: components attached to and detached from a bot.  *)

BotComponentInputs == {"comp1", "comp2", "comp1b"}
\* "comp3" names no component.
BotNameInputs == {"comp1", "comp2", "comp3"}
BotAttachInputs == {<<"comp2", "ping">>}
BotHookOwnerInputs == {"bot", "comp1"}
BotHookTypeInputs == {"component_added", "component_removed"}

\* bot.add_component(component)
AddComponent(component) ==
    LET r == add_component(Heap, BotState, component)
    IN  /\ _names_to_components' = r.bot.components
        /\ _bot' = r.bot.bot_of
        /\ last' = [op |-> "add_component", component |-> component,
                    attached |-> component \in Range(dict_values(_names_to_components)),
                    raised |-> r.raised, dispatched |-> r.dispatched]
        /\ UNCHANGED <<treeVars, _all_hooks, tasks, _prefix_getter, setupVars>>

\* bot.remove_component(component_name)
RemoveComponent(component_name) ==
    LET r == remove_component(BotState, component_name)
    IN  /\ _names_to_components' = r.bot.components
        /\ _bot' = r.bot.bot_of
        /\ last' = [op |-> "remove_component", name |-> component_name,
                    attached |-> dict_has(_names_to_components, component_name),
                    raised |-> r.raised, dispatched |-> r.dispatched]
        /\ UNCHANGED <<treeVars, _all_hooks, tasks, _prefix_getter, setupVars>>

NextBot ==
    \/ \E c \in BotComponentInputs : AddComponent(c)
    \/ \E n \in BotNameInputs : RemoveComponent(n)
    \/ \E a \in BotAttachInputs : AddMessageCommand(a[1], a[2])
    \/ \E o \in BotHookOwnerInputs, t \in BotHookTypeInputs, cb \in Callbacks :
           AddHookCallback(o, t, cb)

SpecBot == InitTree /\ [][NextBot]_vars


(* Specification SpecSetup: a bot holding the commands whose configuration *)
(* calls, start and inbound messages come in any order.                    *)

\* The arguments passed to setup_message_commands.
SetupInputs ==
    {[use_mention_prefixes |-> UNDEFINED, prefix |-> NoPrefix(UNDEFINED),
      case_insensitive_prefixes |-> UNDEFINED, message_commands_only |-> UNDEFINED],
     [use_mention_prefixes |-> "False", prefix |-> NoPrefix(UNDEFINED),
      case_insensitive_prefixes |-> UNDEFINED, message_commands_only |-> "False"],
     [use_mention_prefixes |-> "False", prefix |-> NoPrefix("None"),
      case_insensitive_prefixes |-> "False", message_commands_only |-> UNDEFINED],
     [use_mention_prefixes |-> "False", prefix |-> StrPrefix(<<>>),
      case_insensitive_prefixes |-> "True", message_commands_only |-> UNDEFINED],
     [use_mention_prefixes |-> "False", prefix |-> StrPrefix(<<>>),
      case_insensitive_prefixes |-> "False", message_commands_only |-> UNDEFINED],
     [use_mention_prefixes |-> "True", prefix |-> StrPrefix(Bang),
      case_insensitive_prefixes |-> "False", message_commands_only |-> "True"],
     [use_mention_prefixes |-> "False", prefix |-> StrPrefix(Bang),
      case_insensitive_prefixes |-> "returns_true", message_commands_only |-> UNDEFINED],
     [use_mention_prefixes |-> "False", prefix |-> StrPrefix(Bang),
      case_insensitive_prefixes |-> "returns_yes", message_commands_only |-> UNDEFINED]}

\* The values passed as slash_commands_only.
SlashInputs == {UNDEFINED, "True", "False"}

\* The inbound message events: "PING" and "<@1> ping" written by a human,
\* "!ping" written by a bot.
SetupEvents ==
    {Text(<<>>, <<<<"P", "I", "N", "G">>>>),
     Text(MentionIds[1], <<<<>>, _name["ping"]>>),
     [Text(Bang, <<_name["ping"]>>) EXCEPT !.is_human = FALSE]}

\* Two empty components are added to a fresh bot before the commands are
\* added to them; no set-up method was called.
InitSetup ==
    InitFrom(SetupHeap,
             add_component(FreshHeap, add_component(FreshHeap, FreshBot, "comp1").bot,
                           "comp2").bot)

SetSetup(b) ==
    /\ _prefix_getter' = b.prefix_getter
    /\ _mention_prefixes' = b.mention_prefixes
    /\ _case_insensitive_prefixes_getter' = b.ci_prefixes_getter
    /\ _slash_commands_only' = b.slash_commands_only
    /\ _message_commands_only' = b.message_commands_only
    /\ _started' = b.started
    /\ _msg_setup_run' = b.msg_setup_run
    /\ __mention_prefixes' = b.private_mention_prefixes
    /\ _custom_attributes' = b.custom_attributes

\* bot.setup_message_commands(...)
SetupMessageCommands(args) ==
    LET r == setup_message_commands(BotState, args.use_mention_prefixes, args.prefix,
                                    args.case_insensitive_prefixes,
                                    args.message_commands_only)
    IN  /\ ~Hung
        /\ SetSetup(r.bot)
        /\ last' = [op |-> "setup_message_commands", args |-> args, raised |-> r.raised,
                    message_commands_only |-> _message_commands_only,
                    slash_commands_only |-> _slash_commands_only]
        /\ UNCHANGED <<treeVars, _all_hooks, tasks, _names_to_components, _bot>>

\* bot.setup_slash_commands(slash_commands_only=...)
SetupSlashCommands(slash_commands_only) ==
    /\ ~Hung
    /\ SetSetup(setup_slash_commands(BotState, slash_commands_only))
    /\ last' = [op |-> "setup_slash_commands", args |-> slash_commands_only,
                raised |-> None,
                message_commands_only |-> _message_commands_only,
                slash_commands_only |-> _slash_commands_only]
    /\ UNCHANGED <<treeVars, _all_hooks, tasks, _names_to_components, _bot>>

\* The bot starts: the StartingEvent handler, then the StartedEvent handler.
Start(user_known) ==
    /\ ~Hung
    /\ ~_started
    /\ SetSetup(_setup_on_started(_starting_event(BotState), user_known))
    /\ last' = [op |-> "start", user_known |-> user_known,
                mention_prefixes |-> _starting_event(BotState).mention_prefixes]
    /\ UNCHANGED <<treeVars, _all_hooks, tasks, _names_to_components, _bot>>

NextSetup ==
    \/ \E a \in SetupInputs : SetupMessageCommands(a)
    \/ \E sl \in SlashInputs : SetupSlashCommands(sl)
    \/ \E u \in BOOLEAN : Start(u)
    \/ \E e \in SetupEvents : OnMessageCreate(e, None)

SpecSetup == InitSetup /\ [][NextSetup]_vars


(* Specification SpecAttrs: custom attributes of a fresh bot that may start. *)

\* The names and values tried.  "_started" is a slot of Bot; "my db" is no
\* identifier.
AttrNames == {"database", "cache", "_started", "my db"}
AttrValues == {"v1", "v2"}

\* bot.add_custom_attribute(name, attribute_value)
AddCustomAttribute(name, attribute_value) ==
    LET r == add_custom_attribute(BotState, name, attribute_value)
    IN  /\ _custom_attributes' = r.bot.custom_attributes
        /\ last' = [op |-> "add_custom_attribute", name |-> name,
                    value |-> attribute_value, raised |-> r.raised,
                    before |-> _custom_attributes]
        /\ UNCHANGED <<treeVars, _all_hooks, tasks, _bot, _names_to_components, _prefix_getter,
                       _mention_prefixes, _case_insensitive_prefixes_getter,
                       _slash_commands_only, _message_commands_only, _started,
                       _msg_setup_run, __mention_prefixes>>

\* bot.edit_custom_attribute(name, new_attribute_value)
EditCustomAttribute(name, new_attribute_value) ==
    LET r == edit_custom_attribute(BotState, name, new_attribute_value)
    IN  /\ _custom_attributes' = r.bot.custom_attributes
        /\ last' = [op |-> "edit_custom_attribute", name |-> name,
                    value |-> new_attribute_value, raised |-> r.raised,
                    before |-> _custom_attributes]
        /\ UNCHANGED <<treeVars, _all_hooks, tasks, _bot, _names_to_components, _prefix_getter,
                       _mention_prefixes, _case_insensitive_prefixes_getter,
                       _slash_commands_only, _message_commands_only, _started,
                       _msg_setup_run, __mention_prefixes>>

\* bot.delete_custom_attribute(name)
DeleteCustomAttribute(name) ==
    LET r == delete_custom_attribute(BotState, name)
    IN  /\ _custom_attributes' = r.bot.custom_attributes
        /\ last' = [op |-> "delete_custom_attribute", name |-> name,
                    value |-> None, raised |-> r.raised,
                    before |-> _custom_attributes]
        /\ UNCHANGED <<treeVars, _all_hooks, tasks, _bot, _names_to_components, _prefix_getter,
                       _mention_prefixes, _case_insensitive_prefixes_getter,
                       _slash_commands_only, _message_commands_only, _started,
                       _msg_setup_run, __mention_prefixes>>

NextAttrs ==
    \/ \E n \in AttrNames, v \in AttrValues : AddCustomAttribute(n, v)
    \/ \E n \in AttrNames, v \in AttrValues : EditCustomAttribute(n, v)
    \/ \E n \in AttrNames : DeleteCustomAttribute(n)
    \/ \E u \in BOOLEAN : Start(u)

SpecAttrs == InitTree /\ [][NextAttrs]_vars


-----------------------------------------------------------------------------
(* Specification SpecConc: the coroutines of several events interleaved on *)
(* the set-up bot.  SpecMutate adds the bot's structural methods, which    *)
(* run while coroutines are suspended.                                     *)

\* The events the coroutines handle.
TaskEvents ==
    {Text(<<>>, <<_name["ping"]>>),
     Text(Bang, <<_name["ping"]>>),
     Text(BangBang, <<_name["ping"]>>),
     Text(Bang, <<_name["echo"]>>),
     Text(Bang, <<_name["user"]>>)}

\* A coroutine that never leaves the while loop never yields, and nothing
\* else runs on the event loop again.
LoopBlocked == \E t \in TaskIds : tasks[t].outcome = "hang"

\* The event loop starts on_message_create(event), which runs to its first
\* await.
Begin(t, event) ==
    /\ ~LoopBlocked
    /\ tasks[t].pc \in {"idle", "done"}
    /\ tasks' = [tasks EXCEPT ![t] = task_begin(BotState, event)]
    /\ last' = [op |-> "task", task |-> t, step |-> "begin"]
    /\ UNCHANGED <<treeVars, botVars, _all_hooks>>

\* The prefix getter answers: lines 458-463, up to the next await.
Resolve(t) ==
    LET extended == _prefix_getter.return_object \o _mention_prefixes
    IN  /\ ~LoopBlocked
        /\ tasks[t].pc = "prefix"
        /\ Len(extended) <= MaxPrefixes
        /\ IF extended = <<>>
           THEN /\ tasks' = [tasks EXCEPT ![t] = ended(@, "returned", NoError)]
                /\ UNCHANGED _prefix_getter
           ELSE /\ tasks' = [tasks EXCEPT ![t].pc = "ci"]
                /\ _prefix_getter' =
                       [_prefix_getter EXCEPT !.return_object =
                            resolve_prefixes(_prefix_getter.return_object,
                                             _mention_prefixes)]
        /\ last' = [op |-> "task", task |-> t, step |-> "resolve"]
        /\ UNCHANGED <<treeVars, setupVars, _names_to_components, _bot, _all_hooks>>

\* The case-insensitivity getter answers: lines 467-494, up to the next
\* await or to the end.
Scan(t) ==
    /\ ~LoopBlocked
    /\ tasks[t].pc = "ci"
    /\ tasks' = [tasks EXCEPT ![t] = task_scan(Heap, BotState, @)]
    /\ last' = [op |-> "task", task |-> t, step |-> "scan"]
    /\ UNCHANGED <<treeVars, botVars, _all_hooks>>

\* The user callback ends, raising ex: the rest of message_invoke, then the
\* for loop goes on to the next await or to the end.
Return(t, ex) ==
    /\ ~LoopBlocked
    /\ tasks[t].pc = "callback"
    /\ \E step \in iterator_outcomes(tasks[t].seen, _names_to_components) :
           tasks' = [tasks EXCEPT ![t] =
                         task_return(Heap, BotState, _all_hooks, @, ex, step)]
    /\ last' = [op |-> "task", task |-> t, step |-> "return"]
    /\ UNCHANGED <<treeVars, botVars, _all_hooks>>

NextConc ==
    \/ \E t \in TaskIds, e \in TaskEvents : Begin(t, e)
    \/ \E t \in TaskIds : Resolve(t)
    \/ \E t \in TaskIds : Scan(t)
    \/ \E t \in TaskIds, ex \in CallbackOutcomes : Return(t, ex)

SpecConc == Init /\ [][NextConc]_vars

\* The components added and removed while coroutines are suspended.
MutateComponentInputs == {"comp2", "comp1b"}
MutateNameInputs == {"comp2"}

NextMutate ==
    \/ NextConc
    \/ \E c \in MutateComponentInputs : ~LoopBlocked /\ AddComponent(c)
    \/ \E n \in MutateNameInputs : ~LoopBlocked /\ RemoveComponent(n)

\* The bot set up with the prefixes "!" and "!!".
InitMutate ==
    InitFrom(SetupHeap, SetupBot("False", ListPrefix(<<Bang, BangBang>>), "False"))

SpecMutate == InitMutate /\ [][NextMutate]_vars


-----------------------------------------------------------------------------
(* Properties. *)

Dispatched == last.op = "on_message_create"

\* The message_invoke calls of the last dispatch whose user callback raised.
RaisedInvocations ==
    IF Dispatched
    THEN {i \in 1..Len(last.invocations) :
            last.invocations[i].callback_ran
            /\ last.invocations[i].callback_raised /= None}
    ELSE {}

\* The hook calls of the last dispatch that were handed the CommandError of
\* command, as <<owner, callback>> pairs in call order.
RECURSIVE ErrorCallsOf(_, _)
ErrorCallsOf(calls, command) ==
    IF calls = <<>> THEN <<>>
    ELSE LET c == Head(calls)
             mine == /\ c.payload.kind = "CommandError"
                     /\ c.payload.context.command = command
         IN  (IF mine THEN <<<<c.owner, c.callback>>>> ELSE <<>>)
             \o ErrorCallsOf(Tail(calls), command)

\* The callbacks registered for "error" on owner, as <<owner, callback>> pairs.
ErrorHooksOf(owner) ==
    [i \in 1..Len(_all_hooks[owner]["error"]) |-> <<owner, _all_hooks[owner]["error"][i]>>]

HasErrorHook(owner) == _all_hooks[owner]["error"] /= <<>>

AllTiersHooked(command) ==
    /\ HasErrorHook(command)
    /\ HasErrorHook(_component[command])
    /\ HasErrorHook("bot")

OnlyBotHooked(command) ==
    /\ ~HasErrorHook(command)
    /\ ~HasErrorHook(_component[command])
    /\ HasErrorHook("bot")

C4_UnhandledPropagation ==
    (TotalHooks = 0 /\ RaisedInvocations /= {}) => last.outcome = "returned"

\* C5: for a message that passed the prefix steps, CommandNotFound is
\* dispatched through the bot registry iff no component yields a match.
C5_CommandNotFound ==
    (Dispatched /\ last.parsed) => (last.not_found <=> last.matched = <<>>)

\* Whether the prefix scan of the last dispatch counts candidate p as a hit.
Hit(p) ==
    LET content == lstrip(last.event.content)
    IN  IF _case_insensitive_prefixes_getter.return_object
        THEN startswith(lower(content), lower(p))
        ELSE startswith(content, p)

Hits == {i \in 1..Len(last.prefixes) : Hit(last.prefixes[i])}

\* C6: the prefix matched and stripped is the longest candidate the content
\* starts with.
C6_PrefixLongestMatch ==
    (Dispatched /\ last.scanned) =>
        \A i \in Hits :
            /\ Hit(last.prefix)
            /\ Len(last.prefixes[i]) <= Len(last.prefix)

\* C7: the candidates are scanned in descending-length order without
\* stopping at the first hit: the recorded prefix is the last candidate, in
\* that order, that the content starts with ("" when there is none).
C7_PrefixLastMatchWins ==
    (Dispatched /\ last.scanned) =>
        /\ \A i, j \in 1..Len(last.prefixes) :
               i < j => Len(last.prefixes[i]) >= Len(last.prefixes[j])
        /\ last.prefixes = _prefix_getter.return_object
        /\ IF Hits = {} THEN last.prefix = <<>>
           ELSE last.prefix = last.prefixes[CHOOSE i \in Hits : \A j \in Hits : j <= i]

C7_Witness ==
    /\ Dispatched /\ last.scanned
    /\ \E i, j \in Hits : i < j /\ last.prefixes[i] /= last.prefixes[j]

\* What is left of the content of the last dispatch after the matched
\* prefix and the whitespace following it.
Rest ==
    LET content == lstrip(last.event.content)
    IN  lstrip(SubSeq(content, Len(last.prefix) + 1, Len(content)))

\* The whitespace-delimited tokens of s.
RECURSIVE Tokens(_)
Tokens(s) ==
    LET t == lstrip(s)
    IN  IF t = <<>> THEN <<>>
        ELSE <<split_first(t)>>
             \o Tokens(SubSeq(t, Len(split_first(t)) + 1, Len(t)))

\* The deepest node the tokens lead to from node: each token that names a
\* child of the current group descends one level.
RECURSIVE Deepest(_, _)
Deepest(node, tokens) ==
    IF node \in Groups /\ tokens /= <<>>
       /\ dict_has(_names_to_subcommands[node], Head(tokens))
    THEN Deepest(dict_get(_names_to_subcommands[node], Head(tokens)), Tail(tokens))
    ELSE node

\* C8: when a component yields a match, the node invoked is the deepest
\* node the following tokens of the content lead to.
C8_DeepestNodeInvoked ==
    (Dispatched /\ last.parsed /\ last.matched /= <<>>) =>
        /\ last.invocations /= <<>>
        /\ last.invocations[1].command = Deepest(last.matched[1], Tail(Tokens(Rest)))

\* C9: when the command token names a group and the next token is absent or
\* names no child of it, the dispatch terminates and the group itself is
\* invoked, its callback runs, and no error is produced.
C9_GroupAloneTerminates ==
    (/\ Dispatched /\ last.parsed /\ last.matched /= <<>>
     /\ last.matched[1] \in Groups
     /\ Deepest(last.matched[1], Tail(Tokens(Rest))) = last.matched[1]) =>
        /\ last.outcome = "returned"
        /\ last.invocations /= <<>>
        /\ last.invocations[1].command = last.matched[1]
        /\ last.invocations[1].callback_ran

\* The chain of objects from the top-level group down to node, when node is
\* attached at most three levels deep with parent pointers and child maps
\* agreeing; <<>> otherwise.
AttachedTo(node, g) ==
    /\ node \in SubNodes
    /\ _parent[node] = g
    /\ dict_get(_names_to_subcommands[g], _name[node]) = node

Chain(node) ==
    IF \E g \in Groups : AttachedTo(node, g) /\ Class[g] = "CommandGroup"
    THEN <<_parent[node], node>>
    ELSE IF \E g \in Groups, top \in Groups :
                /\ AttachedTo(node, g) /\ AttachedTo(g, top)
                /\ Class[top] = "CommandGroup"
         THEN <<_parent[_parent[node]], _parent[node], node>>
    ELSE <<>>

\* C10: for a node attached up to three levels deep, full_name is the names
\* on the path from the top-level group to the node, joined by single
\* spaces.
C10_FullNameRoundTrip ==
    (last.op = "full_name" /\ Chain(last.command) /= <<>>) =>
        /\ last.raised = None
        /\ last.value = join([i \in 1..Len(Chain(last.command)) |->
                                 _name[Chain(last.command)[i]]])

\* No two items of the map d share a key, and every child is stored under
\* its own name.
UniqueNames(d) ==
    /\ \A i, j \in 1..Len(d) : d[i][1] = d[j][1] => i = j
    /\ \A i \in 1..Len(d) : d[i][1] = _name[d[i][2]]

\* A step that is an add call whose command's name is already a key of the
\* container raises ValueError and changes nothing of the tree.
CollidingAddIsRejected ==
    /\ (/\ last'.op = "add_subcommand"
        /\ dict_has(_names_to_subcommands[last'.group], _name[last'.command])) =>
           (last'.raised = "ValueError" /\ UNCHANGED treeVars)
    /\ (/\ last'.op = "add_message_command"
        /\ dict_has(_names_to_message_commands[last'.component], _name[last'.command])) =>
           (last'.raised = "ValueError" /\ UNCHANGED treeVars)

\* C11: adding a child whose name is already taken in a group or component
\* raises and leaves the child map, the existing child and the rejected
\* node's parent and component as they were; no container ever holds two
\* children of one name.
C11_Uniqueness ==
    /\ [](/\ \A g \in Groups : UniqueNames(_names_to_subcommands[g])
          /\ \A c \in Components : UniqueNames(_names_to_message_commands[c]))
    /\ [][CollidingAddIsRejected]_vars

C11_Witness ==
    /\ last.op = "add_subcommand"
    /\ last.raised = "ValueError"
    /\ dict_get(_names_to_subcommands[last.group], _name[last.command])
           \notin {None, last.command}
    /\ _parent[last.command] /= last.group

\* C12: a node is in the child map of a group exactly when its parent
\* pointer is that group, so no node is a child of two groups at once.
C12_SingleOwnership ==
    \A g \in Groups, n \in SubNodes :
        n \in walk_subcommands(Heap, g) <=> _parent[n] = g

\* C13: every node reachable through child maps from a group that has a
\* component has that same component.
C13_ComponentTransitive ==
    \A g \in Groups :
        _component[g] /= None =>
            \A n \in Visited(Heap, {g}, {}) : _component[n] = _component[g]

\* The callbacks the registry of the last direct dispatch holds for the
\* dispatched type.
DispatchedList == _all_hooks[last.owner][last.hook_type]

\* C14: Hooks.dispatch returns False when no callback is registered for the
\* type and True when at least one is, also when all of them raised.
C14_DispatchReturn ==
    last.op = "dispatch" => (last.handled <=> DispatchedList /= <<>>)

C14_Witness ==
    /\ last.op = "dispatch"
    /\ DispatchedList /= <<>>
    /\ \A i \in 1..Len(last.calls) : last.calls[i].raised
    /\ last.handled

\* A successful registration appends the callback to the end of the list of
\* its type and changes no other list.
RegistrationAppends ==
    (last'.op = "add_hook_callback" /\ last'.added) =>
        _all_hooks' = [_all_hooks EXCEPT
                          ![last'.owner][last'.hook_type] = Append(@, last'.callback)]

\* C15: Hooks.dispatch calls every callback registered for the type once,
\* in registration order; a callback that raises stops neither the later
\* callbacks nor does its exception leave dispatch.
C15_DispatchOrder ==
    /\ [](last.op = "dispatch" =>
            /\ last.raised = None
            /\ Len(last.calls) = Len(DispatchedList)
            /\ \A i \in 1..Len(last.calls) :
                   /\ last.calls[i].callback = DispatchedList[i]
                   /\ last.calls[i].owner = last.owner
                   /\ last.calls[i].hook_type = last.hook_type)
    /\ [][RegistrationAppends]_vars

C15_Witness ==
    /\ last.op = "dispatch"
    /\ \E i, j \in 1..Len(last.calls) :
           i < j /\ last.calls[i].raised /\ ~last.calls[j].raised

\* C16: a command-scoped registry never holds a callback for
\* component_added or component_removed; registering one there changes no
\* registry and does not raise.
C16_NoComponentHooksOnCommands ==
    /\ [](\A o \in HookOwners, t \in _component_only_hooks :
              _type(o) = "command" => _all_hooks[o][t] = <<>>)
    /\ [][(/\ last'.op = "add_hook_callback"
           /\ _type(last'.owner) = "command"
           /\ last'.hook_type \in _component_only_hooks) =>
              (last'.raised = None /\ UNCHANGED _all_hooks)]_vars

C16_Witness ==
    /\ last.op = "add_hook_callback"
    /\ _type(last.owner) = "command"
    /\ last.hook_type \in _component_only_hooks
    /\ params(last.callback) = 2
    /\ ~last.added

\* The number of values a dispatch of hook_type passes to a callback.
ValuesPassed(hook_type) == IF hook_type \in _component_only_hooks THEN 2 ELSE 1

\* C17: on a bot or component registry a callback is registered exactly
\* when its parameter count equals the number of values passed for the
\* type: 1, and 2 for component_added and component_removed.
C17_ArityValidation ==
    (/\ last.op = "add_hook_callback"
     /\ _type(last.owner) /= "command"
     /\ last.hook_type \in HookTypes) =>
        (last.added <=> params(last.callback) = ValuesPassed(last.hook_type))

\* The registration the step made is one of the three kinds that are to be
\* rejected.
ToBeRejected ==
    /\ last'.op = "add_hook_callback"
    /\ \/ last'.hook_type \notin HookTypes
       \/ _type(last'.owner) = "command" /\ last'.hook_type \in _component_only_hooks
       \/ params(last'.callback) /= ValuesPassed(last'.hook_type)

\* C18: a registration with an unrecognized hook type, a component-only
\* type on a command registry or a wrong parameter count does not raise and
\* leaves every registry as it was.
C18_RejectedRegistrationFrame ==
    [][ToBeRejected =>
          (last'.raised = None /\ ~last'.added /\ UNCHANGED _all_hooks)]_vars

C18_Witness ==
    /\ last.op = "add_hook_callback"
    /\ last.hook_type = "error"
    /\ params(last.callback) = 2
    /\ ~last.added
    /\ TotalHooks > 0

\* C19: remove_component for a name that is not attached does not raise,
\* leaves the component map, the back-references and the hooks as they
\* were, and dispatches no component_removed.
C19_IdempotentDetach ==
    [][(last'.op = "remove_component" /\ ~last'.attached) =>
          /\ last'.raised = None
          /\ last'.dispatched = <<>>
          /\ UNCHANGED <<_names_to_components, _bot, _all_hooks>>]_vars

C19_Witness ==
    /\ last.op = "remove_component"
    /\ ~last.attached
    /\ last.name \in Components
    /\ _names_to_components /= <<>>

\* C20: add_component of a component that is not yet attached sets its bot
\* back-reference and dispatches component_added; remove_component of an
\* attached component clears the back-reference and dispatches
\* component_removed.
C20_AttachDetachLifecycle ==
    /\ (last.op = "add_component" /\ ~last.attached) =>
           /\ _bot[last.component] = "bot"
           /\ "component_added" \in Range(last.dispatched)
    /\ (last.op = "remove_component" /\ last.attached) =>
           /\ _bot[last.name] = None
           /\ "component_removed" \in Range(last.dispatched)

\* C22: a dispatched message never changes what the prefix resolver
\* returns on its next call: the list captured at construction.
C22_ResolverReturnsCapturedList ==
    [][last'.op = "on_message_create" => _prefix_getter' = _prefix_getter]_vars

\* C25: an event without content is ignored: no prefix is resolved, no
\* command is looked up or invoked, no hook is called, and the state of the
\* bot, the commands and the hooks stays as it was.
C25_NoContentIgnored ==
    [][(last'.op = "on_message_create" /\ ~last'.event.has_content) =>
          /\ last' = Observation(last'.event)
          /\ UNCHANGED <<treeVars, botVars, _all_hooks>>]_vars

C25_Witness ==
    /\ Dispatched
    /\ ~last.event.has_content
    /\ ~_slash_commands_only
    /\ _prefix_getter.kind = "literal"

\* C26: when nothing is left of the content after the matched prefix and
\* the whitespace following it, the dispatch stops: no command is looked
\* up or invoked, no hook is called and no CommandNotFound is dispatched.
C26_PrefixOnlyIgnored ==
    (Dispatched /\ last.scanned /\ Rest = <<>>) =>
        /\ ~last.parsed
        /\ last.matched = <<>>
        /\ last.invocations = <<>>
        /\ last.calls = <<>>
        /\ ~last.not_found
        /\ last.outcome = "returned"

C26_Witness ==
    /\ Dispatched /\ last.scanned /\ Rest = <<>>
    /\ last.prefix /= <<>>
    /\ TotalHooks > 0

\* The invocations of the last dispatch in which the user callback was
\* called.
CallbackInvocations ==
    IF Dispatched
    THEN {i \in 1..Len(last.invocations) : last.invocations[i].callback_ran}
    ELSE {}

\* C29: in every invocation pre_invoke is dispatched before the command
\* callback is called.
C29_PreInvokeDispatched ==
    \A n \in CallbackInvocations :
        LET steps == last.invocations[n].steps
        IN  \E i, j \in 1..Len(steps) :
                i < j /\ steps[i] = "pre_invoke" /\ steps[j] = "callback"

\* C30: command_success is dispatched exactly when the callback returned
\* without raising, and post_invoke is dispatched after the callback in
\* every invocation.
C30_PostInvokeAndSuccess ==
    \A n \in CallbackInvocations :
        LET r == last.invocations[n]
        IN  /\ "command_success" \in Range(r.steps) <=> r.callback_raised = None
            /\ \E i, j \in 1..Len(r.steps) :
                   i < j /\ r.steps[i] = "callback" /\ r.steps[j] = "post_invoke"

\* C21: once the started event was handled with the bot's user known,
\* enabled mention prefixes (a list that is not empty) are exactly
\* <@id> and <@!id>, whether they were enabled before or after the start.
C21_MentionPrefixesPopulated ==
    (_started /\ __mention_prefixes = MentionIds /\ _mention_prefixes /= <<>>) =>
        _mention_prefixes = MentionIds

\* C23: for the content "PING", the configured prefix "" and no mention
\* prefixes, the command ping is resolved and invoked exactly when
\* case-insensitive prefixes are enabled.
C23_CaseInsensitivityToggle ==
    (/\ Dispatched /\ last.scanned
     /\ last.event.content = <<"P", "I", "N", "G">>
     /\ last.prefixes = << <<>> >>) =>
        (last.case_insensitive.truth <=>
            \E i \in 1..Len(last.invocations) :
                last.invocations[i].command = "ping" /\ last.invocations[i].callback_ran)

\* C24: an event whose author is not a human is dropped before the prefix
\* resolution: no command is invoked and no hook is called.
C24_IgnoreBotsGate ==
    (Dispatched /\ ~last.event.is_human) =>
        /\ ~last.resolved
        /\ last.invocations = <<>>
        /\ last.calls = <<>>

\* C27: after a setup_message_commands call that returned without raising
\* the bot has a prefix list that is not empty or mention prefixes enabled.
C27_PrefixOrMention ==
    (last.op = "setup_message_commands" /\ last.raised = None) =>
        \/ _prefix_getter.kind = "literal" /\ _prefix_getter.return_object /= <<>>
        \/ _mention_prefixes /= <<>>

\* C28: message_commands_only and slash_commands_only are never both true,
\* and a set-up call that sets one of them to true leaves the other false.
C28_OnlyFlagsExclusive ==
    /\ ~(_message_commands_only /\ _slash_commands_only)
    /\ (last.op = "setup_slash_commands" /\ last.args = "True") =>
           (_slash_commands_only /\ ~_message_commands_only)
    /\ (last.op = "setup_message_commands" /\ last.args.message_commands_only = "True") =>
           (_message_commands_only /\ ~_slash_commands_only)

C28_Witness ==
    \/ /\ last.op = "setup_slash_commands" /\ last.args = "True"
       /\ last.message_commands_only
       /\ _slash_commands_only /\ ~_message_commands_only
    \/ /\ last.op = "setup_message_commands"
       /\ last.args.message_commands_only = "True"
       /\ last.slash_commands_only
       /\ _message_commands_only /\ ~_slash_commands_only

\* C35: at most one command callback is called for one inbound message,
\* even when a later component holds a command of the same name.
C35_AtMostOneInvocation ==
    Cardinality(CallbackInvocations) <= 1

\* C39: a registration that succeeded appends the callback to the end of
\* the list of its hook type in its owner's registry; every other list of
\* that registry and every list of every other registry stays as it was.
C39_RegistriesIsolated ==
    [][(last'.op = "add_hook_callback" /\ last'.added) =>
          \A o \in HookOwners, t \in HookTypes :
              _all_hooks'[o][t] =
                  IF o = last'.owner /\ t = last'.hook_type
                  THEN Append(_all_hooks[o][t], last'.callback)
                  ELSE _all_hooks[o][t]]_vars

C39_Witness ==
    /\ last.op = "add_hook_callback" /\ last.added
    /\ Len(_all_hooks[last.owner][last.hook_type]) >= 2
    /\ \/ \E t \in HookTypes \ {last.hook_type} : _all_hooks[last.owner][t] /= <<>>
       \/ \E o \in HookOwners \ {last.owner} :
              \E t \in HookTypes : _all_hooks[o][t] /= <<>>

\* The groups whose child map holds node.
ParentsOf(node) == {g \in Groups : node \in walk_subcommands(Heap, g)}

\* The child maps form a forest: no object is a child of two groups and no
\* group is its own descendant.
WellFormedTree ==
    \A n \in Nodes :
        /\ Cardinality(ParentsOf(n)) <= 1
        /\ n \notin Visited(Heap, walk_subcommands(Heap, n), {})

\* node is reached through child maps from a top-level CommandGroup.
ReachableFromTop(node) ==
    \E top \in Nodes :
        /\ Class[top] = "CommandGroup"
        /\ node \in Visited(Heap, walk_subcommands(Heap, top), {})

\* C34: in a well-formed tree full_name of a node reached through child
\* maps from a top-level CommandGroup ends and returns a value.
C34_FullNameTerminates ==
    (last.op = "full_name" /\ WellFormedTree /\ ReachableFromTop(last.command)) =>
        last.raised = None

C34_Witness ==
    /\ last.op = "full_name" /\ WellFormedTree /\ ReachableFromTop(last.command)
    /\ Len(Chain(last.command)) = 3
    /\ last.value /= <<>>

\* C36: a component's bot back-reference is set exactly when the component
\* is a value of the bot's component map.
C36_BackReferenceConsistent ==
    \A c \in Components :
        _bot[c] = "bot" <=> c \in Range(dict_values(_names_to_components))

\* C31: a case-insensitive-prefixes getter built from a callback returns
\* the callback's value when that value is a bool and raises TypeError when
\* it is not.
C31_BoolCallbackContract ==
    (/\ Dispatched /\ last.case_insensitive.called
     /\ _case_insensitive_prefixes_getter.kind = "callback") =>
        LET result == returns(_case_insensitive_prefixes_getter.callback)
        IN  IF result.type = "bool"
            THEN /\ last.case_insensitive.raised = None
                 /\ last.case_insensitive.value = result.value
            ELSE last.case_insensitive.raised = "TypeError"

\* The last call was one of the three custom-attribute methods.
AttributeCall ==
    last.op \in {"add_custom_attribute", "edit_custom_attribute",
                 "delete_custom_attribute"}

\* C32: add on a name the map holds, and edit or delete on a name it does
\* not hold, raise ValueError and leave the map as it was; after an add that
\* returned the attribute reads back as the value stored, and after a delete
\* that returned the name is absent from the map.
C32_CustomAttributes ==
    AttributeCall =>
        LET existed == dict_has(last.before, last.name)
            rejected == IF last.op = "add_custom_attribute" THEN existed ELSE ~existed
        IN  /\ rejected => (last.raised = "ValueError" /\ _custom_attributes = last.before)
            /\ (last.op = "add_custom_attribute" /\ last.raised = None) =>
                   getattr(BotState, last.name) = [value |-> last.value, raised |-> None]
            /\ (last.op = "delete_custom_attribute" /\ last.raised = None) =>
                   ~dict_has(_custom_attributes, last.name)

\* The commands a component holds.
Owned(component) == Range(dict_values(_names_to_message_commands[component]))

\* C33: _set_parser(p) records p as the component's global parser and, on a
\* component without a custom parser, makes p the parser of every command
\* the component holds; on a component with a custom parser, and for every
\* other command, the parsers stay as they were.  add_message_command gives
\* the new command the custom parser, or the global parser when there is no
\* custom one.
C33_ParserPropagation ==
    /\ [][last'.op = "_set_parser" =>
            /\ _global_parser' =
                   [_global_parser EXCEPT ![last'.component] = last'.parser]
            /\ \A n \in Nodes :
                   _parser'[n] =
                       IF /\ _custom_parser[last'.component] = None
                          /\ n \in Owned(last'.component)
                       THEN last'.parser ELSE _parser[n]]_vars
    /\ [][(last'.op = "add_message_command" /\ last'.raised = None) =>
            _parser'[last'.command] =
                IF _custom_parser[last'.component] /= None
                THEN _custom_parser[last'.component]
                ELSE _global_parser[last'.component]]_vars

C33_Witness ==
    /\ last.op = "_set_parser"
    /\ last.component = "comp2"
    /\ Owned("comp2") /= {}
    /\ \A n \in Owned("comp2") : _parser[n] = "custom"
    /\ Cardinality(Owned("comp1")) >= 2
    /\ \A n \in Owned("comp1") : _parser[n] = "p1"

\* What on_message_create yields for the event when it runs by itself from
\* the present state with callbacks that return: the prefix its scan
\* records and the commands it invokes, in order.
Alone(event) ==
    LET obs == on_message_create(Heap, BotState, _all_hooks, event, None).obs
    IN  [scanned |-> obs.scanned, prefix |-> obs.prefix,
         invoked |-> [i \in 1..Len(obs.invocations) |-> obs.invocations[i].command],
         outcome |-> obs.outcome]

IsPrefixOf(s, t) == Len(s) <= Len(t) /\ SubSeq(t, 1, Len(s)) = s

\* C37: when the coroutines of several events interleave at their awaits
\* and nothing mutates the bot's structure, every coroutine that has
\* scanned the prefixes recorded the prefix the event yields when handled
\* alone, the commands it has invoked so far are the first of those the
\* event invokes alone, and a coroutine that returned invoked them all.
\* A coroutine that never leaves the while loop blocks the event loop;
\* that one matches the lone dispatch too, which does not end either.
C37_ConcurrentDispatchesIndependent ==
    \A t \in TaskIds :
        LET task == tasks[t]
            alone == Alone(task.event)
        IN  /\ task.scanned => alone.scanned /\ task.prefix = alone.prefix
            /\ task.pc \in {"callback", "done"} => IsPrefixOf(task.invoked, alone.invoked)
            /\ task.pc = "done" /\ task.outcome = "returned" =>
                   /\ task.invoked = alone.invoked
                   /\ alone.outcome = "returned"
            /\ task.outcome = "hang" => alone.outcome = "hang"

\* Two coroutines for different events are in flight at once, one
\* suspended in a user callback after the other extended and sorted the
\* shared list, and later both have scanned and invoked a command.
C37_Witness ==
    /\ tasks["t1"].event /= tasks["t2"].event
    /\ tasks["t1"].pc = "callback"
    /\ tasks["t2"].pc = "callback"
    /\ tasks["t1"].invoked /= <<>>
    /\ tasks["t2"].invoked /= <<>>

\* C38: a coroutine that was suspended in a user callback while a component
\* was added or removed ends without an error caused by the mutation, and
\* an error of its callback went to the registries of the component and
\* bot its command had when the dispatch started.
C38_MutationDuringDispatchSafe ==
    \A t \in TaskIds :
        (tasks[t].pc = "done" /\ tasks[t].mutated) =>
            /\ tasks[t].raised.kind /= "RuntimeError"
            /\ tasks[t].callback_raised /= None =>
                   /\ tasks[t].routed_bot = tasks[t].bot
                   /\ tasks[t].routed_comp = tasks[t].comp

\* A coroutine whose callback returned after comp2 had been removed ends
\* with the dict view's RuntimeError.
C38_Counterexample ==
    \E t \in TaskIds :
        /\ tasks[t].pc = "done"
        /\ tasks[t].mutated
        /\ tasks[t].callback_raised = None
        /\ Len(_names_to_components) < Len(tasks[t].seen)
        /\ tasks[t].raised.kind = "RuntimeError"

====
